---------------------------- MODULE Spec2Model ----------------------------
(***************************************************************************)
(* A model of the dbhub-application web front end: the read pipelines      *)
(* (tableViewHandler, databasePage, visData, visualisePage,                *)
(* downloadCSVHandler), the upload handler and the result cache.           *)
(*                                                                         *)
(* The repository holds two generations of main.go.  The older one         *)
(* (src/unnamed/part_000) resolves the object location with inline SQL     *)
(* and caches both the location and the rendered JSON; the newer one       *)
(* (src/unnamed/part_001, the companion of src/pages.go) delegates to the  *)
(* "com" library.  Both generations are modelled; the actions of the older *)
(* tableViewHandler are named tableViewHandler_*, those of the newer one   *)
(* tableViewHandler2_*.                                                    *)
(*                                                                         *)
(* The upload handler is modelled twice: as one action (uploads that do    *)
(* not overlap) and step by step (uploadDataHandler_version and the        *)
(* actions after it), for uploads that run concurrently.                   *)
(* Time is the variable now; it moves only in the                          *)
(* specification that has the action Tick, and a cache entry is found      *)
(* while it is younger than its lifetime.                                  *)
(*                                                                         *)
(* Strings are TLA+ strings and Go's + is \o, so that a cache key built by *)
(* concatenation collides in the model exactly when it collides in Go.     *)
(* An md5 digest is modelled as the collision-free token <<"md5", input>>; *)
(* a cache key is the tuple of its literal parts and digests.  A hex       *)
(* digest has a fixed length and holds none of the characters p, u, /, so  *)
(* two keys are equal as Go strings exactly when their tuples are equal.   *)
(***************************************************************************)
EXTENDS Integers, Sequences, FiniteSets, TLC

VARIABLES
    database_versions,  \* rows of the PostgreSQL table database_versions (joined with sqlite_databases)
    minio,              \* the object store: object id -> stored file ("none" when absent)
    memCache,           \* the memcached store: set of [key, val]
    pref_max_rows,      \* users.pref_max_rows: user -> stored preference
    req,                \* per worker: the request it is serving and its locals
    upl,                \* per upload worker: the upload it is serving and its locals
    started,            \* number of requests started so far
    uploads,            \* number of uploads started so far
    now                 \* the time, in seconds

vars == <<database_versions, minio, memCache, pref_max_rows, req, upl, started, uploads, now>>

-----------------------------------------------------------------------------
(* Bounds of the model *)

MaxRequests == 2        \* requests started in one behaviour
MaxUploads == 2         \* uploads started in one behaviour
MaxTime == 90           \* the time at which the clock stops, in seconds
TickStep == 30          \* the seconds that pass in one step of the clock

(* Program constants *)

AnonMaxRows == 10       \* the row limit of a viewer without a session
VisPageMaxRows == 1000  \* visualisePage's row limit
VisDataMaxRows == 2500  \* visData's row limit (maxVals)
PrefMin == 1            \* lower bound of the max-rows preference
PrefMax == 500          \* upper bound of the max-rows preference

-----------------------------------------------------------------------------
(* The world the requests are drawn from *)

\* The owner of the databases of the model is called pub: the one user name
\* under which the owner's location key starts like the public one ("pub/").
Users == {"pub", "bob"}
Workers == {"w1", "w2"}
Uploaders == {"u1", "u2"}
MinioIds == {"o1", "o2"}
DBNames == {"d.db"}

NoFile == "none"

\* The files that can be uploaded.  Each is described by what sqlite reports
\* for it: whether it opens, its table enumeration, and per table the column
\* names and the number of rows.
FileIds == {"fA", "fB", "fC"}

Tables(f) ==
    CASE f = "fA" -> <<"t", "e">>
      [] f = "fB" -> <<"big", "e">>
      [] f = "fC" -> <<"c">>
      [] OTHER -> << >>

ColumnNames(f, t) ==
    CASE t = "t" -> <<"a", "bc">>
      [] t = "e" -> <<"a">>
      [] t = "big" -> <<"a", "bc", "ab", "c">>
      [] t = "c" -> <<"n", "s", "b", "m", "f">>
      [] OTHER -> << >>

TableRows(f, t) ==
    CASE f = "fA" /\ t = "t" -> 12
      [] f = "fA" /\ t = "e" -> 0
      [] f = "fB" /\ t = "big" -> 2501
      [] f = "fB" /\ t = "e" -> 0
      [] f = "fC" /\ t = "c" -> 1
      [] OTHER -> 0

SeqToSet(s) == {s[i] : i \in 1..Len(s)}

Min(a, b) == IF a < b THEN a ELSE b

\* A stored cell: its dynamic type (stmt.ColumnType) and its value, an
\* integer for Integer and Float cells, a string for Text and Blob cells.
Cell(type, int, text) == [type |-> type, int |-> int, text |-> text]

\* The cells of the first row of a table.  Table c of fC holds a NULL, the
\* text NULL, a blob, the text <i>NULL</i> and a float; every cell of row i
\* of the other tables holds the integer i.
StoredRow(f, t) ==
    IF f = "fC" /\ t = "c"
    THEN <<Cell("Null", 0, ""), Cell("Text", 0, "NULL"), Cell("Blob", 0, "xy"),
           Cell("Text", 0, "<i>NULL</i>"), Cell("Float", 2, "")>>
    ELSE [i \in 1..Len(ColumnNames(f, t)) |-> Cell("Integer", 1, "")]


-----------------------------------------------------------------------------
(* The metadata store *)

\* The rows of database_versions that belong to (owner, name).
VersionsOf(rows, dbOwner, dbName) ==
    {r \in rows : r.username = dbOwner /\ r.dbname = dbName}

\* ORDER BY version DESC LIMIT 1: the rows an engine may return first.
OrderByVersionDescLimit1(rows) ==
    {r \in rows : \A s \in rows : s.version <= r.version}

\* tableViewHandler's query for a viewer who is not the owner
\* (... AND ver.public = true ORDER BY version DESC LIMIT 1).
PublicQueryRows(rows, dbOwner, dbName) ==
    OrderByVersionDescLimit1({r \in VersionsOf(rows, dbOwner, dbName) : r.public})

\* tableViewHandler's query for the owner (no filter on ver.public).
OwnerQueryRows(rows, dbOwner, dbName) ==
    OrderByVersionDescLimit1(VersionsOf(rows, dbOwner, dbName))

\* TableViewQueryRows with the public filter in the owner's query too.
TableViewQueryRows_alwaysPublic(rows, loggedInUser, dbOwner, dbName) ==
    PublicQueryRows(rows, dbOwner, dbName)

\* The query tableViewHandler picks from the viewer's identity.
TableViewQueryRows(rows, loggedInUser, dbOwner, dbName) ==
    IF loggedInUser # dbOwner
    THEN PublicQueryRows(rows, dbOwner, dbName)
    ELSE OwnerQueryRows(rows, dbOwner, dbName)

\* com.CheckUserDBAccess: the rows whose object the viewer is given; none
\* means the access check fails.
CheckUserDBAccess(rows, loggedInUser, dbOwner, dbName) ==
    IF loggedInUser = dbOwner
    THEN OrderByVersionDescLimit1(VersionsOf(rows, dbOwner, dbName))
    ELSE OrderByVersionDescLimit1({r \in VersionsOf(rows, dbOwner, dbName) : r.public})

\* com.MinioBucketID: as CheckUserDBAccess when no version is asked for
\* (dbVersion = 0), otherwise that exact version if the viewer may see it.
MinioBucketID(rows, dbOwner, dbName, dbVersion, loggedInUser) ==
    IF dbVersion = 0
    THEN CheckUserDBAccess(rows, loggedInUser, dbOwner, dbName)
    ELSE {r \in VersionsOf(rows, dbOwner, dbName) :
            r.version = dbVersion /\ (r.public \/ loggedInUser = dbOwner)}

\* com.HighestDBVersion: 0 when the database does not exist yet.
HighestDBVersion(rows, loggedInUser, dbName) ==
    LET vs == {r.version : r \in VersionsOf(rows, loggedInUser, dbName)}
    IN  IF vs = {} THEN 0 ELSE CHOOSE v \in vs : \A x \in vs : x <= v

\* com.CheckMinioIDAvail: no version of this user is stored under the id.
CheckMinioIDAvail(rows, loggedInUser, minioID) ==
    \A r \in rows : r.username = loggedInUser => r.minioid # minioID

-----------------------------------------------------------------------------
(* Cache keys *)

Md5(s) == <<"md5", s>>

\* fmt.Sprintf(dbQuery, dbOwner, dbName): the query text holds $1 and $2 but
\* no formatting verb, so Go appends the arguments as an EXTRA section.
Sprintf(dbQuery, dbOwner, dbName) ==
    dbQuery \o "%!(EXTRA string=" \o dbOwner \o ", string=" \o dbName \o ")"

\* The two query texts of tableViewHandler, abridged to the part that differs.
PublicQueryText == "WHERE ver.db = db.idnum AND ver.public = true ORDER BY version DESC LIMIT 1"
OwnerQueryText == "WHERE ver.db = db.idnum ORDER BY version DESC LIMIT 1"

\* strconv.Itoa
Itoa(n) == ToString(n)

\* jsonCacheKey with one namespace for every viewer.
jsonCacheKey_oneNamespace(loggedInUser, dbOwner, dbName, requestedTable) ==
    <<"tbl-pub-", Md5(dbOwner \o "/" \o dbName \o "/" \o requestedTable)>>

\* tableViewHandler: jsonCacheKey before the row limit is appended.
jsonCacheKey(loggedInUser, dbOwner, dbName, requestedTable) ==
    IF loggedInUser # dbOwner
    THEN <<"tbl-pub-", Md5(dbOwner \o "/" \o dbName \o "/" \o requestedTable)>>
    ELSE <<"tbl-", Md5(loggedInUser \o "-" \o dbOwner \o "/" \o dbName \o "/" \o requestedTable)>>

\* queryCacheKey with the digest of the public query in both branches.
queryCacheKey_sameQuery(loggedInUser, dbOwner, dbName) ==
    IF loggedInUser # dbOwner
    THEN <<"pub/", Md5(Sprintf(PublicQueryText, dbOwner, dbName))>>
    ELSE <<loggedInUser \o "/", Md5(Sprintf(PublicQueryText, dbOwner, dbName))>>

\* tableViewHandler: the key of the resolved object location.
queryCacheKey(loggedInUser, dbOwner, dbName) ==
    IF loggedInUser # dbOwner
    THEN <<"pub/", Md5(Sprintf(PublicQueryText, dbOwner, dbName))>>
    ELSE <<loggedInUser \o "/", Md5(Sprintf(OwnerQueryText, dbOwner, dbName))>>

\* databasePage: pageCacheKey before the row limit is appended.
pageCacheKey(loggedInUser, userName, dbName, dbTable) ==
    IF loggedInUser # userName
    THEN <<"dwndb-pub-", Md5(userName \o "/" \o dbName \o "/" \o dbTable)>>
    ELSE <<"dwndb-", Md5(loggedInUser \o "-" \o userName \o "/" \o dbName \o "/" \o dbTable)>>

\* visData: pageCacheKey.
visCacheKey(loggedInUser, userName, dbName, requestedTable, xCol, yCol, wCol, wType, wVal) ==
    IF loggedInUser # userName
    THEN <<"visdat-pub-", Md5(userName \o "/" \o dbName \o "/" \o requestedTable \o xCol \o yCol
                                \o wCol \o wType \o wVal)>>
    ELSE <<"visdat-", Md5(loggedInUser \o "-" \o userName \o "/" \o dbName \o "/" \o requestedTable
                            \o xCol \o yCol \o wCol \o wType \o wVal)>>

\* key += "/" + strconv.Itoa(maxRows)
WithMaxRows(key, maxRows) == key \o <<"/" \o Itoa(maxRows)>>

-----------------------------------------------------------------------------
(* The result cache *)

\* cacheData(queryCacheKey, minioInfo, 120): the lifetime, in seconds, of a
\* resolved-location entry.
LocationCacheTime == 120

\* com.CacheTime / cacheTime: the lifetime, in seconds, of a rendered-result
\* entry (a configuration value).
CacheTime == 60

\* getCachedData / com.GetCachedData: the entries found under a key; an
\* entry older than its lifetime is not found.
getCachedData(cache, key) == {e \in cache : e.key = key /\ now - e.at < e.ttl}

\* cacheData / com.CacheData: memcached Set replaces the entry of the key.
cacheData(cache, key, val, ttl) ==
    {e \in cache : e.key # key} \cup {[key |-> key, val |-> val, at |-> now, ttl |-> ttl]}

-----------------------------------------------------------------------------
(* Requests, responses and rendered results *)

NoTag == [owner |-> "", dbname |-> "", version |-> 0, public |-> FALSE]

\* An object of the store: the file and, as history, the version it was
\* uploaded as.
NoObject == [file |-> NoFile, tag |-> NoTag]

NoForm == [xcol |-> "", ycol |-> "", wherecol |-> "", wheretype |-> "", whereval |-> ""]

\* A rendered result (com.SQLiteRecordSet, or databasePage's pageData).
\* Records holds the number of leading rows of the table that the record set
\* carries; src is the version the rows were read from.
NoData ==
    [Tablename |-> "", ColNames |-> << >>, ColCount |-> 0, RowCount |-> 0, TotalRows |-> 0,
     Records |-> 0, Row1 |-> << >>, Where |-> << >>, LoggedInUser |-> "", src |-> NoTag,
     shape |-> << >>, DBRows |-> {}, PublicDBs |-> {}, PrivateDBs |-> {}]

\* What the client receives.  A handler that returns without writing makes
\* net/http send status 200 with an empty body (kind "empty").
NoResp == [code |-> 0, kind |-> "none", data |-> NoData, cached |-> FALSE]

errorPage(httpcode) == [code |-> httpcode, kind |-> "error", data |-> NoData, cached |-> FALSE]

BareReturn == [code |-> 200, kind |-> "empty", data |-> NoData, cached |-> FALSE]

Reply(kind, data, cached) == [code |-> 200, kind |-> kind, data |-> data, cached |-> cached]

IdleReq ==
    [h |-> "idle", pc |-> "idle", loggedInUser |-> "", dbOwner |-> "", dbName |-> "",
     requestedTable |-> "", dbVersion |-> 0, form |-> NoForm, whereClauses |-> << >>,
     minioId |-> "", maxRows |-> 0, key |-> << >>, qkey |-> << >>, tables |-> << >>,
     data |-> NoData, kind |-> "none", resp |-> NoResp, ops |-> << >>, accessFailed |-> FALSE,
     stop |-> "", cacheErr |-> FALSE, at |-> 0, held |-> {}]

NewReq(h, loggedInUser, dbOwner, dbName, requestedTable, dbVersion, form) ==
    [IdleReq EXCEPT !.h = h, !.pc = "start", !.at = now, !.loggedInUser = loggedInUser, !.dbOwner = dbOwner,
                    !.dbName = dbName, !.requestedTable = requestedTable,
                    !.dbVersion = dbVersion, !.form = form]

\* One entry of a request's operation log.
\* limit = -1 stands for a read without a row limit.
OpRead(table, limit, cols, where) ==
    [op |-> "read", table |-> table, limit |-> limit, cols |-> cols, where |-> where]

Op(name, table, limit) == [op |-> name, table |-> table, limit |-> limit, cols |-> << >>, where |-> << >>]

Log(r, name) == [r EXCEPT !.ops = Append(@, Op(name, "", 0))]

\* A cache call and its outcome: a call that reported an error is logged
\* under the name of the call followed by "Err", and cacheErr keeps, as
\* history, whether any cache call of the request reported one.
LogCache(r, name, out) ==
    [Log(r, IF out = "ok" THEN name ELSE name \o "Err") EXCEPT !.cacheErr = @ \/ out # "ok"]

Done(r, resp) == [r EXCEPT !.pc = "done", !.resp = resp]

\* A worker can take a new request when it has none or has answered its last.
Free(w) == req[w].pc \in {"idle", "done"} /\ started < MaxRequests

\* The inputs a specification draws requests from are a record of sets:
\* viewers, owners, tables, versions, forms (of visData), faults (injected
\* failures of the collaborators), uploaders, publics and files (of uploads),
\* prefs (submissions to prefHandler).

-----------------------------------------------------------------------------
(* Cell decoding *)

\* com.DataValue{Name, Type, Value}; a cell of a CSV row is a bare string,
\* held in Value with Name and Type empty.
DataValue(name, type, value) == [Name |-> name, Type |-> type, Value |-> value]

\* strconv.FormatFloat(val, 'f', 4, 64) of a whole number.
FormatFloat(val) == ToString(val) \o ".0000"

\* base64.StdEncoding.EncodeToString
Base64(val) ==
    CASE val = "" -> "" [] val = "xy" -> "eHk=" [] OTHER -> "base64:" \o val

\* databasePage, pages.go lines 153-203: the switch on the field type.
databasePageCell(name, cell) ==
    CASE cell.type = "Integer" -> DataValue(name, "Integer", Itoa(cell.int))
      [] cell.type = "Float" -> DataValue(name, "Float", FormatFloat(cell.int))
      [] cell.type = "Text" -> DataValue(name, "Text", cell.text)
      [] cell.type = "Blob" -> DataValue(name, "Binary", "<i>BINARY DATA</i>")
      [] OTHER -> DataValue(name, "Null", "<i>NULL</i>")

\* downloadCSVHandler, part_000 lines 104-150: the switch on the field type.
downloadCSVCell(name, cell) ==
    CASE cell.type = "Integer" -> DataValue("", "", Itoa(cell.int))
      [] cell.type = "Float" -> DataValue("", "", FormatFloat(cell.int))
      [] cell.type = "Text" -> DataValue("", "", cell.text)
      [] cell.type = "Blob" -> DataValue("", "", Base64(cell.text))
      [] OTHER -> DataValue("", "", "NULL")

\* readSQLiteDB / com.ReadSQLiteDB: integer as decimal string, float with
\* four decimals, text as it is, binary as a placeholder, null as a marker,
\* each under its type tag.
ReadSQLiteDBCell(name, cell) ==
    CASE cell.type = "Integer" -> DataValue(name, "Integer", Itoa(cell.int))
      [] cell.type = "Float" -> DataValue(name, "Float", FormatFloat(cell.int))
      [] cell.type = "Text" -> DataValue(name, "Text", cell.text)
      [] cell.type = "Blob" -> DataValue(name, "Binary", "<i>BINARY DATA</i>")
      [] OTHER -> DataValue(name, "Null", "<i>NULL</i>")

\* com.ReadSQLiteDBCSV: the same decoding into the strings of a CSV row.
ReadSQLiteDBCSVCell(name, cell) ==
    CASE cell.type = "Integer" -> DataValue("", "", Itoa(cell.int))
      [] cell.type = "Float" -> DataValue("", "", FormatFloat(cell.int))
      [] cell.type = "Text" -> DataValue("", "", cell.text)
      [] cell.type = "Blob" -> DataValue("", "", "<i>BINARY DATA</i>")
      [] OTHER -> DataValue("", "", "<i>NULL</i>")

\* The decoding of one cell by the reader named decoder.
DecodeCell(decoder, name, cell) ==
    CASE decoder = "databasePage" -> databasePageCell(name, cell)
      [] decoder = "downloadCSVHandler" -> downloadCSVCell(name, cell)
      [] decoder = "ReadSQLiteDBCSV" -> ReadSQLiteDBCSVCell(name, cell)
      [] OTHER -> ReadSQLiteDBCell(name, cell)

\* The first record of a result of n rows, decoded cell by cell.
DecodeRow(f, dbTable, n, decoder) ==
    IF n > 0 /\ TableRows(f, dbTable) > 0
    THEN [i \in 1..Len(StoredRow(f, dbTable)) |->
            DecodeCell(decoder, ColumnNames(f, dbTable)[i], StoredRow(f, dbTable)[i])]
    ELSE << >>

-----------------------------------------------------------------------------
(* The relational file reader *)

\* for _, tbl := range tables { if tbl == requested { present = true } }
tablePresent(tables, requested) == \E i \in 1..Len(tables) : tables[i] = requested

\* readSQLiteDB / com.ReadSQLiteDB(db, table, maxRows): the record set of a
\* table of the file, holding at most maxRows rows.
ReadSQLiteDB(f, dbTable, maxRows) ==
    [NoData EXCEPT !.Tablename = dbTable,
                   !.ColNames = ColumnNames(f, dbTable),
                   !.ColCount = Len(ColumnNames(f, dbTable)),
                   !.RowCount = Min(maxRows, TableRows(f, dbTable)),
                   !.Records = Min(maxRows, TableRows(f, dbTable)),
                   !.Row1 = DecodeRow(f, dbTable, Min(maxRows, TableRows(f, dbTable)),
                                      "ReadSQLiteDB")]

\* getSQLiteRowCount / com.GetSQLiteRowCount: SELECT count(*) FROM table.
GetSQLiteRowCount(f, dbTable) == TableRows(f, dbTable)

\* The reader cannot run a query on a name that is not a table of the file.
ReadFails(f, dbTable) == ~tablePresent(Tables(f), dbTable)

\* The operations a read pipeline performs up to and including the step it
\* stops at, in the order of the code.
StageNo(stage) ==
    CASE stage = "fetch" -> 1 [] stage = "open" -> 2 [] stage = "tables" -> 3
      [] stage = "validate" -> 4 [] stage = "read" -> 5 [] stage = "count" -> 6
      [] stage = "marshal" -> 7 [] OTHER -> 8

PipelineOps(stop, dbTable, limit) ==
    SelectSeq(<<Op("fetch", "", 0), Op("open", "", 0), Op("tables", "", 0),
                Op("read", dbTable, limit), Op("count", dbTable, 0)>>,
              LAMBDA o : StageNo(o.op) <= StageNo(stop))

-----------------------------------------------------------------------------
(* Steps shared by the handlers *)

\* A cache entry: a resolved location (Bucket, Id) or a rendered result.
LocationEntry(bucket, id) == [Bucket |-> bucket, Id |-> id, kind |-> "location", data |-> NoData]
RenderedEntry(kind, data) == [Bucket |-> "", Id |-> "", kind |-> kind, data |-> data]

\* The outcomes of a step: "ok" or one of the faults the specification injects.
Outcomes(In, faults) == {"ok"} \cup (In.faults \cap faults)

\* if loggedInUser != "" { maxRows = PrefUserMaxRows(loggedInUser) } else { maxRows = 10 }
MaxRowsOf(loggedInUser) ==
    IF loggedInUser # "" THEN pref_max_rows[loggedInUser] ELSE AnonMaxRows

\* The object behind a resolved location.
ObjectAt(bucket, id) ==
    IF bucket \in Users /\ id \in MinioIds THEN minio[<<bucket, id>>] ELSE NoObject

\* The step of a read pipeline at which it stops, from the injected fault and
\* the file at hand; "ok" when it runs to the end.  validates says whether the
\* handler checks the requested table against the enumeration.
StopStage(fault, obj, requestedTable, passedTable, validates) ==
    CASE fault \in {"fetchErr", "copyErr"} \/ obj.file = NoFile -> "fetch"
      [] fault = "openErr" -> "open"
      [] fault = "tablesErr" \/ Len(Tables(obj.file)) = 0 -> "tables"
      [] validates /\ requestedTable # "" /\ ~tablePresent(Tables(obj.file), requestedTable) -> "validate"
      [] fault = "readErr" \/ ReadFails(obj.file, passedTable) -> "read"
      [] fault = "countErr" -> "count"
      [] fault = "marshalErr" -> "marshal"
      [] OTHER -> "ok"

ReadFaults == {"fetchErr", "openErr", "tablesErr", "readErr", "countErr", "marshalErr"}

\* What a handler still holds when it returns after its pipeline went as far
\* as stop: "db" the database handle of com.OpenMinioObject (with its local
\* copy of the file), "stmt" a prepared statement, "tempfile" and
\* "tempfileHandle" the local copy the older table view makes itself.
\*   older tableViewHandler (part_000 lines 780-820): the object handle, the
\*     removal of the temporary file and the database handle are deferred, but
\*     the returns after a failed or empty io.Copy (lines 803-810) come before
\*     tempfileHandle.Close() and before defer os.Remove(tempfile);
\*   databasePage and visualisePage (pages.go lines 81-86, 754-759): defer
\*     db.Close(); the statement of databasePage is finalised by a defer placed
\*     after the Select (line 215) and otherwise goes with the handle;
\*   older downloadCSVHandler (part_000 lines 79-162): the handle is never
\*     closed, the statement is finalised only when the Select succeeded;
\*   newer downloadCSVHandler, newer tableViewHandler, visData (part_001 lines
\*     69, 607, 981): the handle is never closed.
Held(h, stop, fault) ==
    CASE h = "tableViewHandler" ->
            IF stop = "fetch" /\ fault # "fetchErr" THEN {"tempfile", "tempfileHandle"} ELSE {}
      [] h \in {"databasePage", "visualisePage"} -> {}
      [] h = "downloadCSVHandler" ->
            IF stop = "fetch" THEN {}
            ELSE IF stop = "read" /\ fault = "readErr" THEN {"db", "stmt"} ELSE {"db"}
      [] OTHER -> IF stop = "fetch" THEN {} ELSE {"db"}

\* tableViewRows with the number of rows read as the total.
tableViewRows_totalOfRead(f, dbTable, maxRows, tag) ==
    [ReadSQLiteDB(f, dbTable, maxRows) EXCEPT
        !.TotalRows = ReadSQLiteDB(f, dbTable, maxRows).RowCount,
        !.src = tag]

\* tableViewHandler, part_000 lines 854-867 and part_001 lines 641-654: the
\* rows read under the row limit, and the count of all rows as TotalRows.
\* tag is the version of the file, kept as history.
tableViewRows(f, dbTable, maxRows, tag) ==
    [ReadSQLiteDB(f, dbTable, maxRows) EXCEPT
        !.TotalRows = GetSQLiteRowCount(f, dbTable),
        !.src = tag]

-----------------------------------------------------------------------------
(* tableViewHandler, older generation (src/unnamed/part_000) *)

\* Lines 669-735: parse the request, build both cache keys, look the object
\* location up in the cache.
tableViewHandler_lookup(w, In) ==
    /\ Free(w)
    /\ \E loggedInUser \in In.viewers, dbOwner \in In.owners, dbName \in DBNames,
          requestedTable \in In.tables, out \in Outcomes(In, {"cacheGetErr"}) :
        LET r0 == NewReq("tableViewHandler", loggedInUser, dbOwner, dbName, requestedTable, 0, NoForm)
            r1 == LogCache([r0 EXCEPT !.key = jsonCacheKey(loggedInUser, dbOwner, dbName, requestedTable),
                                      !.qkey = queryCacheKey(loggedInUser, dbOwner, dbName)],
                           "cacheget", out)
            hit == getCachedData(memCache, r1.qkey)
        IN  IF out = "ok" /\ hit # {}
            THEN \E e \in hit :
                    req' = [req EXCEPT ![w] = [r1 EXCEPT !.minioId = e.val.Id, !.pc = "maxrows"]]
            ELSE req' = [req EXCEPT ![w] = [r1 EXCEPT !.pc = "query"]]
    /\ started' = started + 1
    /\ UNCHANGED <<database_versions, minio, memCache, pref_max_rows, upl, uploads, now>>

\* Lines 736-742: on a miss, query the metadata store.
tableViewHandler_query(w, In) ==
    /\ req[w].h = "tableViewHandler" /\ req[w].pc = "query"
    /\ LET r == Log(req[w], "query")
           rows == TableViewQueryRows(database_versions, r.loggedInUser, r.dbOwner, r.dbName)
       IN  IF rows = {}
           THEN req' = [req EXCEPT ![w] = Done([r EXCEPT !.accessFailed = TRUE], BareReturn)]
           ELSE \E row \in rows :
                   req' = [req EXCEPT ![w] = [r EXCEPT !.minioId = row.minioid, !.pc = "cacheloc"]]
    /\ UNCHANGED <<database_versions, minio, memCache, pref_max_rows, upl, started, uploads, now>>

\* Lines 744-756: cache the location, then the sanity check on the id.
tableViewHandler_cacheloc(w, In) ==
    /\ req[w].h = "tableViewHandler" /\ req[w].pc = "cacheloc"
    /\ \E out \in Outcomes(In, {"cachePutErr"}) :
        /\ memCache' = IF out = "ok"
                       THEN cacheData(memCache, req[w].qkey, LocationEntry(req[w].dbOwner, req[w].minioId),
                                      LocationCacheTime)
                       ELSE memCache
        /\ req' = [req EXCEPT ![w] =
                     IF req[w].minioId = ""
                     THEN Done(LogCache(req[w], "cacheput", out), BareReturn)
                     ELSE [LogCache(req[w], "cacheput", out) EXCEPT !.pc = "maxrows"]]
    /\ UNCHANGED <<database_versions, minio, pref_max_rows, upl, started, uploads, now>>

\* The row limit left out of the key of the rendered result.
tableViewHandler_maxrows_keyWithoutLimit(w) ==
    /\ req[w].h = "tableViewHandler" /\ req[w].pc = "maxrows"
    /\ LET maxRows == MaxRowsOf(req[w].loggedInUser)
       IN  req' = [req EXCEPT ![w] = [@ EXCEPT !.maxRows = maxRows,
                                               !.pc = "cacheget"]]
    /\ UNCHANGED <<database_versions, minio, memCache, pref_max_rows, upl, started, uploads, now>>

\* Lines 758-769: the row limit, appended to the key of the rendered result.
tableViewHandler_maxrows(w) ==
    /\ req[w].h = "tableViewHandler" /\ req[w].pc = "maxrows"
    /\ LET maxRows == MaxRowsOf(req[w].loggedInUser)
       IN  req' = [req EXCEPT ![w] = [@ EXCEPT !.maxRows = maxRows,
                                               !.key = WithMaxRows(@, maxRows),
                                               !.pc = "cacheget"]]
    /\ UNCHANGED <<database_versions, minio, memCache, pref_max_rows, upl, started, uploads, now>>

\* Lines 770-778: serve the rendered result from the cache if it is there.
tableViewHandler_cacheget(w, In) ==
    /\ req[w].h = "tableViewHandler" /\ req[w].pc = "cacheget"
    /\ \E out \in Outcomes(In, {"cacheGetErr"}) :
        LET r == LogCache(req[w], "cacheget", out)
            hit == getCachedData(memCache, r.key)
        IN  IF out = "ok" /\ hit # {}
            THEN \E e \in hit :
                    req' = [req EXCEPT ![w] = Done(r, Reply(e.val.kind, e.val.data, TRUE))]
            ELSE req' = [req EXCEPT ![w] = [r EXCEPT !.pc = "fetch"]]
    /\ UNCHANGED <<database_versions, minio, memCache, pref_max_rows, upl, started, uploads, now>>

\* Lines 780-880: fetch the object, copy it to a temporary file, open it,
\* list and check the tables, read the rows, count them, serialise.
tableViewHandler_fetch(w, In) ==
    /\ req[w].h = "tableViewHandler" /\ req[w].pc = "fetch"
    /\ \E fault \in Outcomes(In, ReadFaults \cup {"copyErr"}) :
        LET r == req[w]
            obj == ObjectAt(r.dbOwner, r.minioId)
            tables == Tables(obj.file)
            dbTable == IF r.requestedTable = "" /\ Len(tables) > 0 THEN tables[1] ELSE r.requestedTable
            stop == StopStage(fault, obj, r.requestedTable, dbTable, TRUE)
            r1 == [r EXCEPT !.stop = stop, !.held = Held(r.h, stop, fault), !.ops = @ \o PipelineOps(stop, dbTable, r.maxRows),
                            !.tables = IF StageNo(stop) > StageNo("tables") THEN tables ELSE << >>]
            dataRows == tableViewRows(obj.file, dbTable, r.maxRows, obj.tag)
        IN  req' = [req EXCEPT ![w] =
                CASE stop \in {"fetch", "open", "tables", "marshal"} -> Done(r1, BareReturn)
                  [] stop \in {"validate", "read"} -> Done(r1, errorPage(400))
                  [] stop = "count" -> Done(r1, errorPage(500))
                  [] OTHER ->
                        IF dataRows.RowCount > 0
                        THEN [r1 EXCEPT !.kind = "json", !.data = dataRows, !.pc = "cacheput"]
                        ELSE [r1 EXCEPT !.kind = "emptyset", !.data = [NoData EXCEPT !.src = obj.tag],
                                        !.pc = "cacheput"]]
    /\ UNCHANGED <<database_versions, minio, memCache, pref_max_rows, upl, started, uploads, now>>

\* tableViewHandler_cacheput answering InternalServerError when the cache
\* reports an error.
tableViewHandler_cacheput_propagates(w, In) ==
    /\ req[w].h = "tableViewHandler" /\ req[w].pc = "cacheput"
    /\ \E out \in Outcomes(In, {"cachePutErr"}) :
        /\ memCache' = IF out = "ok"
                       THEN cacheData(memCache, req[w].key, RenderedEntry(req[w].kind, req[w].data),
                                      CacheTime)
                       ELSE memCache
        /\ req' = [req EXCEPT ![w] =
                     Done(LogCache(req[w], "cacheput", out),
                          IF out = "ok" THEN Reply(req[w].kind, req[w].data, FALSE) ELSE errorPage(500))]
    /\ UNCHANGED <<database_versions, minio, pref_max_rows, upl, started, uploads, now>>

\* Lines 882-889: cache the JSON, answer.
tableViewHandler_cacheput(w, In) ==
    /\ req[w].h = "tableViewHandler" /\ req[w].pc = "cacheput"
    /\ \E out \in Outcomes(In, {"cachePutErr"}) :
        /\ memCache' = IF out = "ok"
                       THEN cacheData(memCache, req[w].key, RenderedEntry(req[w].kind, req[w].data),
                                      CacheTime)
                       ELSE memCache
        /\ req' = [req EXCEPT ![w] = Done(LogCache(req[w], "cacheput", out), Reply(req[w].kind, req[w].data, FALSE))]
    /\ UNCHANGED <<database_versions, minio, pref_max_rows, upl, started, uploads, now>>

-----------------------------------------------------------------------------
(* tableViewHandler, newer generation (src/unnamed/part_001) *)

\* Lines 568-594: parse the request, resolve the object with
\* com.MinioBucketID.  A viewer without access gets InternalServerError when
\* com.MinioBucketID reports an error, and an empty answer when it reports an
\* empty id: the library is not part of the repository, so both can happen.
tableViewHandler2_access(w, In) ==
    /\ Free(w)
    /\ \E loggedInUser \in In.viewers, dbOwner \in In.owners, dbName \in DBNames,
          requestedTable \in In.tables, dbVersion \in In.versions :
        LET r == Log(NewReq("tableViewHandler2", loggedInUser, dbOwner, dbName, requestedTable,
                            dbVersion, NoForm), "access")
            rows == MinioBucketID(database_versions, dbOwner, dbName, dbVersion, loggedInUser)
        IN  IF rows = {}
            THEN \E resp \in {errorPage(500), BareReturn} :
                    req' = [req EXCEPT ![w] = Done([r EXCEPT !.accessFailed = TRUE], resp)]
            ELSE \E row \in rows :
                    req' = [req EXCEPT ![w] = [r EXCEPT !.minioId = row.minioid, !.pc = "maxrows"]]
    /\ started' = started + 1
    /\ UNCHANGED <<database_versions, minio, memCache, pref_max_rows, upl, uploads, now>>

\* Lines 596-604: the row limit.
tableViewHandler2_maxrows(w) ==
    /\ req[w].h = "tableViewHandler2" /\ req[w].pc = "maxrows"
    /\ req' = [req EXCEPT ![w] = [@ EXCEPT !.maxRows = MaxRowsOf(req[w].loggedInUser), !.pc = "fetch"]]
    /\ UNCHANGED <<database_versions, minio, memCache, pref_max_rows, upl, started, uploads, now>>

\* Lines 606-672: open the object (the error of com.OpenMinioObject is
\* dropped, so a failed open surfaces as a panic on the nil handle), list and
\* check the tables, read, count, serialise, answer.  Nothing is cached.
tableViewHandler2_fetch(w, In) ==
    /\ req[w].h = "tableViewHandler2" /\ req[w].pc = "fetch"
    /\ \E fault \in Outcomes(In, ReadFaults \ {"openErr"}) :
        LET r == req[w]
            obj == ObjectAt(r.dbOwner, r.minioId)
            tables == Tables(obj.file)
            dbTable == IF r.requestedTable = "" /\ Len(tables) > 0 THEN tables[1] ELSE r.requestedTable
            stop == StopStage(fault, obj, r.requestedTable, dbTable, TRUE)
            r1 == [r EXCEPT !.stop = stop, !.held = Held(r.h, stop, fault), !.ops = @ \o SelectSeq(PipelineOps(stop, dbTable, r.maxRows),
                                                   LAMBDA o : o.op # "open"),
                            !.tables = IF StageNo(stop) > StageNo("tables") THEN tables ELSE << >>]
            dataRows == tableViewRows(obj.file, dbTable, r.maxRows, obj.tag)
        IN  req' = [req EXCEPT ![w] =
                CASE stop = "fetch" -> Done(r1, [NoResp EXCEPT !.kind = "panic"])
                  [] stop \in {"tables", "marshal"} -> Done(r1, BareReturn)
                  [] stop \in {"validate", "read"} -> Done(r1, errorPage(400))
                  [] stop = "count" -> Done(r1, errorPage(500))
                  [] OTHER ->
                        IF dataRows.RowCount > 0
                        THEN Done(r1, Reply("json", dataRows, FALSE))
                        ELSE Done(r1, Reply("emptyset", [NoData EXCEPT !.src = obj.tag], FALSE))]
    /\ UNCHANGED <<database_versions, minio, memCache, pref_max_rows, upl, started, uploads, now>>

-----------------------------------------------------------------------------
(* databasePage (src/pages.go) *)

\* SelectLimit without the LIMIT clause.
SelectLimit_noLimit(f, dbTable, maxRows) == TableRows(f, dbTable)

\* "SELECT * FROM " + dbTable + " LIMIT ?" bound to MaxRows: the number of
\* rows the statement yields.
SelectLimit(f, dbTable, maxRows) == Min(maxRows, TableRows(f, dbTable))

\* Lines 29-54: the session, the access check, the cache key.
databasePage_access(w, In) ==
    /\ Free(w)
    /\ \E loggedInUser \in In.viewers, userName \in In.owners, dbName \in DBNames,
          dbTable \in In.tables :
        LET r == Log(NewReq("databasePage", loggedInUser, userName, dbName, dbTable, 0, NoForm),
                     "access")
            rows == CheckUserDBAccess(database_versions, loggedInUser, userName, dbName)
        IN  IF rows = {}
            THEN req' = [req EXCEPT ![w] = Done([r EXCEPT !.accessFailed = TRUE], errorPage(400))]
            ELSE \E row \in rows :
                    req' = [req EXCEPT ![w] =
                              [r EXCEPT !.minioId = row.minioid,
                                        !.key = pageCacheKey(loggedInUser, userName, dbName, dbTable),
                                        !.pc = "maxrows"]]
    /\ started' = started + 1
    /\ UNCHANGED <<database_versions, minio, memCache, pref_max_rows, upl, uploads, now>>

\* Lines 56-65: the row limit, appended to the cache key.
databasePage_maxrows(w) ==
    /\ req[w].h = "databasePage" /\ req[w].pc = "maxrows"
    /\ LET MaxRows == MaxRowsOf(req[w].loggedInUser)
       IN  req' = [req EXCEPT ![w] = [@ EXCEPT !.maxRows = MaxRows,
                                               !.key = WithMaxRows(@, MaxRows),
                                               !.pc = "cacheget"]]
    /\ UNCHANGED <<database_versions, minio, memCache, pref_max_rows, upl, started, uploads, now>>

\* Lines 66-78: render from the cached page data if there is any; the entry
\* is decoded into pageData, Meta.LoggedInUser of the storing request
\* included, and nothing sets Meta again before the page is rendered.  An
\* empty stored name either replaces the name set at lines 31-35 or leaves
\* it, as the encoding of the cache helper has it.
databasePage_cacheget(w, In) ==
    /\ req[w].h = "databasePage" /\ req[w].pc = "cacheget"
    /\ \E out \in Outcomes(In, {"cacheGetErr"}) :
        LET r == LogCache(req[w], "cacheget", out)
            hit == getCachedData(memCache, r.key)
        IN  IF out = "ok" /\ hit # {}
            THEN \E e \in hit :
                 \E name \in IF e.val.data.LoggedInUser = ""
                              THEN {"", r.loggedInUser} ELSE {e.val.data.LoggedInUser} :
                    req' = [req EXCEPT ![w] =
                        Done(r, Reply(e.val.kind, [e.val.data EXCEPT !.LoggedInUser = name], TRUE))]
            ELSE req' = [req EXCEPT ![w] = [r EXCEPT !.pc = "fetch"]]
    /\ UNCHANGED <<database_versions, minio, memCache, pref_max_rows, upl, started, uploads, now>>

\* Lines 160-176: when ScanInt or ScanDouble reports an error the handler
\* logs it and leaves the switch; isNull is false, so no cell is appended for
\* the column and the callback still returns nil.  The row the error hits is
\* the record without its first integer or float cell.
ScanErrRow(row) ==
    LET numeric == {i \in 1..Len(row) : row[i].Type \in {"Integer", "Float"}}
        hit == CHOOSE i \in numeric : \A k \in numeric : i <= k
    IN  IF numeric = {} THEN row
        ELSE [i \in 1..(Len(row) - 1) |-> IF i < hit THEN row[i] ELSE row[i + 1]]

\* Lines 80-230: open the object, list and check the tables, select the rows
\* with LIMIT, count the rows of the table into Data.RowCount.
databasePage_fetch(w, In) ==
    /\ req[w].h = "databasePage" /\ req[w].pc = "fetch"
    /\ \E fault \in Outcomes(In, (ReadFaults \ {"openErr", "marshalErr"}) \cup {"scanErr"}) :
        LET r == req[w]
            obj == ObjectAt(r.dbOwner, r.minioId)
            tables == Tables(obj.file)
            dbTable == IF r.requestedTable = "" /\ Len(tables) > 0 THEN tables[1] ELSE r.requestedTable
            row == DecodeRow(obj.file, dbTable, SelectLimit(obj.file, dbTable, r.maxRows),
                             "databasePage")
            reached == StopStage(fault, obj, r.requestedTable, dbTable, TRUE)
            stop == IF reached = "ok" /\ fault = "scanErr" /\ ScanErrRow(row) # row
                    THEN "scan" ELSE reached
            r1 == [r EXCEPT !.stop = stop, !.held = Held(r.h, stop, fault), !.ops = @ \o SelectSeq(PipelineOps(stop, dbTable, r.maxRows),
                                                   LAMBDA o : o.op # "open"),
                            !.tables = IF StageNo(stop) > StageNo("tables") THEN tables ELSE << >>]
            pageData == [NoData EXCEPT !.ColNames = ColumnNames(obj.file, dbTable),
                                       !.ColCount = Len(ColumnNames(obj.file, dbTable)),
                                       !.Records = SelectLimit(obj.file, dbTable, r.maxRows),
                                       !.Row1 = IF stop = "scan" THEN ScanErrRow(row) ELSE row,
                                       !.RowCount = GetSQLiteRowCount(obj.file, dbTable),
                                       !.Tablename = dbTable,
                                       !.LoggedInUser = r.loggedInUser,
                                       !.src = obj.tag]
        IN  req' = [req EXCEPT ![w] =
                CASE stop \in {"fetch", "tables", "read", "count"} -> Done(r1, errorPage(500))
                  [] stop = "validate" -> Done(r1, errorPage(400))
                  [] OTHER -> [r1 EXCEPT !.kind = "page", !.data = pageData, !.pc = "cacheput"]]
    /\ UNCHANGED <<database_versions, minio, memCache, pref_max_rows, upl, started, uploads, now>>

\* The store of the page data that leaves an entry of the key as it is.
databasePage_cacheput_keepFirst(w, In) ==
    /\ req[w].h = "databasePage" /\ req[w].pc = "cacheput"
    /\ \E out \in Outcomes(In, {"cachePutErr", "renderErr"}) :
        LET put == IF out = "cachePutErr" THEN out ELSE "ok"
            r1 == IF out = "renderErr" THEN [req[w] EXCEPT !.stop = "render"] ELSE req[w]
            resp == IF out = "renderErr"
                    THEN [Reply(r1.kind, r1.data, FALSE) EXCEPT !.kind = "partial"]
                    ELSE Reply(r1.kind, r1.data, FALSE)
        IN  /\ memCache' = IF put = "ok" /\ getCachedData(memCache, r1.key) = {}
                           THEN cacheData(memCache, r1.key, RenderedEntry(r1.kind, r1.data),
                                          CacheTime)
                           ELSE memCache
            /\ req' = [req EXCEPT ![w] = Done(LogCache(r1, "cacheput", put), resp)]
    /\ UNCHANGED <<database_versions, minio, pref_max_rows, upl, started, uploads, now>>

\* Lines 232-245: cache the page data, then render the page; an error of the
\* template is logged after the page data went into the cache.
databasePage_cacheput(w, In) ==
    /\ req[w].h = "databasePage" /\ req[w].pc = "cacheput"
    /\ \E out \in Outcomes(In, {"cachePutErr", "renderErr"}) :
        LET put == IF out = "cachePutErr" THEN out ELSE "ok"
            r1 == IF out = "renderErr" THEN [req[w] EXCEPT !.stop = "render"] ELSE req[w]
            resp == IF out = "renderErr"
                    THEN [Reply(r1.kind, r1.data, FALSE) EXCEPT !.kind = "partial"]
                    ELSE Reply(r1.kind, r1.data, FALSE)
        IN  /\ memCache' = IF put = "ok"
                           THEN cacheData(memCache, r1.key, RenderedEntry(r1.kind, r1.data),
                                          CacheTime)
                           ELSE memCache
            /\ req' = [req EXCEPT ![w] = Done(LogCache(r1, "cacheput", put), resp)]
    /\ UNCHANGED <<database_versions, minio, pref_max_rows, upl, started, uploads, now>>

-----------------------------------------------------------------------------
(* visData (src/unnamed/part_001, lines 858-1043; the same text is in
   src/unnamed/part_000, lines 1138-1323) *)

\* com.ValidatePGTable: a check of the characters of a name.
ValidatePGTable(name) == name \notin {"a;b", "x y"}

\* The comparison operators visData lets through.
WhereTypes == {"LIKE", "=", "!=", "<", "<=", ">", ">="}

\* The value held by every cell of row i in the files of the model.
CellValue(f, dbTable, i) == i

\* The numbers the model's filter values spell.
Atoi(str) ==
    CASE str = "0" -> 0 [] str = "2" -> 2 [] str = "5" -> 5 [] str = "12" -> 12
      [] str = "500" -> 500 [] str = "501" -> 501 [] OTHER -> -1

Satisfies(v, clause) ==
    CASE clause.Type \in {"=", "LIKE"} -> v = Atoi(clause.Value)
      [] clause.Type = "!=" -> v # Atoi(clause.Value)
      [] clause.Type = "<" -> v < Atoi(clause.Value)
      [] clause.Type = "<=" -> v <= Atoi(clause.Value)
      [] clause.Type = ">" -> v > Atoi(clause.Value)
      [] clause.Type = ">=" -> v >= Atoi(clause.Value)
      [] OTHER -> FALSE

\* The number of rows of a table that satisfy every clause.
MatchingRows(f, dbTable, filters) ==
    IF filters = << >>
    THEN TableRows(f, dbTable)
    ELSE Cardinality({i \in 1..TableRows(f, dbTable) :
                        \A k \in 1..Len(filters) : Satisfies(CellValue(f, dbTable, i), filters[k])})

\* com.ReadSQLiteDBCols cannot run when the table, a projected column or a
\* filter column is not in the file.
ReadColsFails(f, dbTable, filters, cols) ==
    \/ ~tablePresent(Tables(f), dbTable)
    \/ \E c \in SeqToSet(cols) : c \notin SeqToSet(ColumnNames(f, dbTable))
    \/ \E k \in 1..Len(filters) : filters[k].Column \notin SeqToSet(ColumnNames(f, dbTable))

\* com.ReadSQLiteDBCols(sdb, table, true, true, maxRows, filters, cols...)
ReadSQLiteDBCols(f, dbTable, maxRows, filters, cols) ==
    [NoData EXCEPT !.Tablename = dbTable,
                   !.ColNames = cols,
                   !.ColCount = Len(cols),
                   !.RowCount = Min(maxRows, MatchingRows(f, dbTable, filters)),
                   !.Records = Min(maxRows, MatchingRows(f, dbTable, filters)),
                   !.Where = filters]

\* Lines 867-966: the form values, the access check, the cache key.
visData_access(w, In) ==
    /\ Free(w)
    /\ \E loggedInUser \in In.viewers, userName \in In.owners, dbName \in DBNames,
          requestedTable \in In.tables, form \in In.forms :
        LET xCol == form.xcol
            yCol == form.ycol
            wCol == form.wherecol
            wType == form.wheretype
            filtered == form.whereval # "" /\ wType # ""
            wVal == IF filtered THEN form.whereval ELSE ""
            whereClauses == IF filtered
                            THEN <<[Column |-> wCol, Type |-> wType, Value |-> form.whereval]>>
                            ELSE << >>
            r0 == NewReq("visData", loggedInUser, userName, dbName, requestedTable, 0, form)
            r == Log([r0 EXCEPT !.whereClauses = whereClauses], "access")
            rows == CheckUserDBAccess(database_versions, loggedInUser, userName, dbName)
        IN  IF \/ ~ValidatePGTable(xCol) \/ ~ValidatePGTable(yCol) \/ ~ValidatePGTable(wCol)
               \/ wType \notin WhereTypes \cup {""}
            THEN req' = [req EXCEPT ![w] = Done(r0, BareReturn)]
            ELSE IF rows = {}
            THEN req' = [req EXCEPT ![w] = Done([r EXCEPT !.accessFailed = TRUE], errorPage(400))]
            ELSE \E row \in rows :
                    req' = [req EXCEPT ![w] =
                              [r EXCEPT !.minioId = row.minioid,
                                        !.maxRows = VisDataMaxRows,
                                        !.key = visCacheKey(loggedInUser, userName, dbName,
                                                            requestedTable, xCol, yCol, wCol, wType, wVal),
                                        !.pc = "cacheget"]]
    /\ started' = started + 1
    /\ UNCHANGED <<database_versions, minio, memCache, pref_max_rows, upl, uploads, now>>

\* Lines 968-978: answer from the cache if the key is there.
visData_cacheget(w, In) ==
    /\ req[w].h = "visData" /\ req[w].pc = "cacheget"
    /\ \E out \in Outcomes(In, {"cacheGetErr"}) :
        LET r == LogCache(req[w], "cacheget", out)
            hit == getCachedData(memCache, r.key)
        IN  IF out = "ok" /\ hit # {}
            THEN \E e \in hit :
                    req' = [req EXCEPT ![w] = Done(r, Reply(e.val.kind, e.val.data, TRUE))]
            ELSE req' = [req EXCEPT ![w] = [r EXCEPT !.pc = "fetch"]]
    /\ UNCHANGED <<database_versions, minio, memCache, pref_max_rows, upl, started, uploads, now>>

\* Lines 980-1033: open the object, list the tables, work out dbTable, then
\* read requestedTable (not dbTable), with the two columns and the filter
\* when both columns were given and without any of them otherwise.
visData_fetch(w, In) ==
    /\ req[w].h = "visData" /\ req[w].pc = "fetch"
    /\ \E fault \in Outcomes(In, ReadFaults \ {"openErr", "countErr"}) :
        LET r == req[w]
            obj == ObjectAt(r.dbOwner, r.minioId)
            tables == Tables(obj.file)
            dbTable == IF tablePresent(tables, r.requestedTable) /\ r.requestedTable # ""
                       THEN r.requestedTable
                       ELSE IF Len(tables) > 0 THEN tables[1] ELSE ""
            xCol == r.form.xcol
            yCol == r.form.ycol
            withCols == xCol # "" /\ yCol # ""
            cols == IF withCols THEN <<xCol, yCol>> ELSE << >>
            filters == IF withCols THEN r.whereClauses ELSE << >>
            cannot == IF withCols
                      THEN ReadColsFails(obj.file, r.requestedTable, filters, cols)
                      ELSE ReadFails(obj.file, r.requestedTable)
            stop == CASE fault = "fetchErr" \/ obj.file = NoFile -> "fetch"
                      [] fault = "tablesErr" \/ Len(tables) = 0 -> "tables"
                      [] fault = "readErr" \/ cannot -> "read"
                      [] fault = "marshalErr" -> "marshal"
                      [] OTHER -> "ok"
            r1 == [r EXCEPT !.stop = stop, !.held = Held(r.h, stop, fault), !.ops = @ \o SelectSeq(<<Op("fetch", "", 0), Op("tables", "", 0),
                                                     OpRead(r.requestedTable, VisDataMaxRows, cols, filters)>>,
                                                   LAMBDA o : StageNo(o.op) <= StageNo(stop)),
                            !.tables = IF StageNo(stop) > StageNo("tables") THEN tables ELSE << >>]
            read == IF withCols
                    THEN ReadSQLiteDBCols(obj.file, r.requestedTable, VisDataMaxRows, filters, cols)
                    ELSE ReadSQLiteDB(obj.file, r.requestedTable, VisDataMaxRows)
            data == [read EXCEPT !.src = obj.tag,
                                 !.shape = <<r.dbOwner, r.dbName, r.requestedTable, r.form>>]
        IN  req' = [req EXCEPT ![w] =
                CASE stop \in {"fetch", "tables", "marshal"} -> Done(r1, BareReturn)
                  [] stop = "read" -> Done(r1, errorPage(400))
                  [] OTHER -> [r1 EXCEPT !.kind = "json", !.data = data, !.pc = "cacheput"]]
    /\ UNCHANGED <<database_versions, minio, memCache, pref_max_rows, upl, started, uploads, now>>

\* Lines 1035-1042: cache the JSON, answer.
visData_cacheput(w, In) ==
    /\ req[w].h = "visData" /\ req[w].pc = "cacheput"
    /\ \E out \in Outcomes(In, {"cachePutErr"}) :
        /\ memCache' = IF out = "ok"
                       THEN cacheData(memCache, req[w].key, RenderedEntry(req[w].kind, req[w].data),
                                      CacheTime)
                       ELSE memCache
        /\ req' = [req EXCEPT ![w] = Done(LogCache(req[w], "cacheput", out), Reply(req[w].kind, req[w].data, FALSE))]
    /\ UNCHANGED <<database_versions, minio, pref_max_rows, upl, started, uploads, now>>

-----------------------------------------------------------------------------
(* visualisePage (src/pages.go) *)

\* Lines 729-751: the request, the session, the access check.
visualisePage_access(w, In) ==
    /\ Free(w)
    /\ \E loggedInUser \in In.viewers, userName \in In.owners, dbName \in DBNames,
          requestedTable \in In.tables :
        LET r == Log(NewReq("visualisePage", loggedInUser, userName, dbName, requestedTable, 0, NoForm),
                     "access")
            rows == CheckUserDBAccess(database_versions, loggedInUser, userName, dbName)
        IN  IF rows = {}
            THEN req' = [req EXCEPT ![w] = Done([r EXCEPT !.accessFailed = TRUE], errorPage(400))]
            ELSE \E row \in rows :
                    req' = [req EXCEPT ![w] = [r EXCEPT !.minioId = row.minioid,
                                                        !.maxRows = VisPageMaxRows, !.pc = "fetch"]]
    /\ started' = started + 1
    /\ UNCHANGED <<database_versions, minio, memCache, pref_max_rows, upl, uploads, now>>

\* Lines 753-826: open the object, list and check the tables, read one row
\* for the column names, read up to 1000 rows, render.
visualisePage_fetch(w, In) ==
    /\ req[w].h = "visualisePage" /\ req[w].pc = "fetch"
    /\ \E fault \in Outcomes(In, ReadFaults \ {"openErr", "countErr", "marshalErr"}) :
        LET r == req[w]
            obj == ObjectAt(r.dbOwner, r.minioId)
            tables == Tables(obj.file)
            requestedTable == IF r.requestedTable = "" /\ Len(tables) > 0
                              THEN tables[1] ELSE r.requestedTable
            stop == StopStage(fault, obj, r.requestedTable, requestedTable, TRUE)
            r1 == [r EXCEPT !.stop = stop, !.held = Held(r.h, stop, fault), !.ops = @ \o SelectSeq(<<Op("fetch", "", 0), Op("tables", "", 0),
                                                     OpRead(requestedTable, 1, << >>, << >>),
                                                     OpRead(requestedTable, VisPageMaxRows, << >>, << >>)>>,
                                                   LAMBDA o : /\ StageNo(o.op) <= StageNo(stop)
                                                              /\ (stop = "read" => o.limit # VisPageMaxRows)),
                            !.tables = IF StageNo(stop) > StageNo("tables") THEN tables ELSE << >>]
            data == [ReadSQLiteDB(obj.file, requestedTable, VisPageMaxRows) EXCEPT !.src = obj.tag]
        IN  req' = [req EXCEPT ![w] =
                CASE stop \in {"fetch", "tables"} -> Done(r1, errorPage(500))
                  [] stop \in {"validate", "read"} -> Done(r1, errorPage(400))
                  [] OTHER -> Done(r1, Reply("vispage", data, FALSE))]
    /\ UNCHANGED <<database_versions, minio, memCache, pref_max_rows, upl, started, uploads, now>>

-----------------------------------------------------------------------------
(* downloadCSVHandler *)

\* "SELECT * FROM " + dbTable, and com.ReadSQLiteDBCSV(sdb, dbTable): every
\* row of the table.
ReadSQLiteDBCSV(f, dbTable) ==
    [NoData EXCEPT !.Tablename = dbTable,
                   !.ColCount = Len(ColumnNames(f, dbTable)),
                   !.RowCount = TableRows(f, dbTable),
                   !.Records = TableRows(f, dbTable),
                   !.Row1 = DecodeRow(f, dbTable, TableRows(f, dbTable), "ReadSQLiteDBCSV")]

\* Both generations, part_000 lines 50-76 and part_001 lines 40-66: the
\* request, the table name, the session, the object location.
downloadCSVHandler_access(w, In, h) ==
    /\ Free(w)
    /\ \E loggedInUser \in In.viewers, dbOwner \in In.owners, dbName \in DBNames,
          dbTable \in In.tables, dbVersion \in In.versions :
        LET r0 == NewReq(h, loggedInUser, dbOwner, dbName, dbTable, dbVersion, NoForm)
            r == Log(r0, "access")
            rows == MinioBucketID(database_versions, dbOwner, dbName, dbVersion, loggedInUser)
        IN  IF dbTable = ""
            THEN req' = [req EXCEPT ![w] = Done(r0, errorPage(400))]
            ELSE IF rows = {}
            THEN req' = [req EXCEPT ![w] = Done([r EXCEPT !.accessFailed = TRUE], errorPage(500))]
            ELSE \E row \in rows :
                    req' = [req EXCEPT ![w] = [r EXCEPT !.minioId = row.minioid, !.pc = "fetch"]]
    /\ started' = started + 1
    /\ UNCHANGED <<database_versions, minio, memCache, pref_max_rows, upl, uploads, now>>

\* Older generation, part_000 lines 78-174: open the object, prepare and run
\* the statement on the table name as given, write the CSV.
downloadCSVHandler_fetch(w, In) ==
    /\ req[w].h = "downloadCSVHandler" /\ req[w].pc = "fetch"
    /\ \E fault \in Outcomes(In, {"fetchErr", "readErr"}) :
        LET r == req[w]
            obj == ObjectAt(r.dbOwner, r.minioId)
            stop == CASE fault = "fetchErr" \/ obj.file = NoFile -> "fetch"
                      [] fault = "readErr" \/ ReadFails(obj.file, r.requestedTable) -> "read"
                      [] OTHER -> "ok"
            r1 == [r EXCEPT !.stop = stop, !.held = Held(r.h, stop, fault), !.ops = @ \o SelectSeq(<<Op("fetch", "", 0),
                                                     OpRead(r.requestedTable, -1, << >>, << >>)>>,
                                                   LAMBDA o : StageNo(o.op) <= StageNo(stop)),
                            !.tables = IF stop = "fetch" THEN << >> ELSE Tables(obj.file)]
            data == [ReadSQLiteDBCSV(obj.file, r.requestedTable) EXCEPT
                        !.src = obj.tag,
                        !.Row1 = DecodeRow(obj.file, r.requestedTable,
                                           TableRows(obj.file, r.requestedTable),
                                           "downloadCSVHandler")]
        IN  req' = [req EXCEPT ![w] =
                CASE stop \in {"fetch", "read"} -> Done(r1, errorPage(500))
                  [] OTHER -> Done(r1, Reply("csv", data, FALSE))]
    /\ UNCHANGED <<database_versions, minio, memCache, pref_max_rows, upl, started, uploads, now>>

\* Newer generation, part_001 lines 68-89: open the object, read the table
\* with com.ReadSQLiteDBCSV (its error is dropped), write the CSV.
downloadCSVHandler2_fetch(w, In) ==
    /\ req[w].h = "downloadCSVHandler2" /\ req[w].pc = "fetch"
    /\ \E fault \in Outcomes(In, {"fetchErr", "readErr"}) :
        LET r == req[w]
            obj == ObjectAt(r.dbOwner, r.minioId)
            stop == CASE fault = "fetchErr" \/ obj.file = NoFile -> "fetch"
                      [] fault = "readErr" \/ ReadFails(obj.file, r.requestedTable) -> "read"
                      [] OTHER -> "ok"
            r1 == [r EXCEPT !.stop = stop, !.held = Held(r.h, stop, fault), !.ops = @ \o SelectSeq(<<Op("fetch", "", 0),
                                                     OpRead(r.requestedTable, -1, << >>, << >>)>>,
                                                   LAMBDA o : StageNo(o.op) <= StageNo(stop)),
                            !.tables = IF stop = "fetch" THEN << >> ELSE Tables(obj.file)]
            data == [ReadSQLiteDBCSV(obj.file, r.requestedTable) EXCEPT !.src = obj.tag]
        IN  req' = [req EXCEPT ![w] =
                CASE stop = "fetch" -> Done(r1, errorPage(500))
                  [] stop = "read" -> Done(r1, Reply("csv", [NoData EXCEPT !.src = obj.tag], FALSE))
                  [] OTHER -> Done(r1, Reply("csv", data, FALSE))]
    /\ UNCHANGED <<database_versions, minio, memCache, pref_max_rows, upl, started, uploads, now>>

-----------------------------------------------------------------------------
(* userPage and profilePage (src/pages.go, lines 371-526 and 628-717) *)

\* SELECT count(username) FROM public.users WHERE username = $1
userCount(userName) == IF userName \in Users THEN 1 ELSE 0

\* The listing query with the public filter left out.
ListedDBs_anyVersion(rows, userName, public) ==
    LET mine == {r \in rows : r.username = userName}
    IN  {[Database |-> r.dbname, Version |-> r.version] :
            r \in {x \in mine : \A y \in mine : y.dbname = x.dbname => y.version <= x.version}}

\* The listing query of both pages (lines 406-419, 449-462, 669-682): the
\* versions of the user's databases whose flag is the one asked for, ordered
\* by name and version descending, DISTINCT ON (dbname): for each name the
\* highest such version.
ListedDBs(rows, userName, public) ==
    LET mine == {r \in rows : r.username = userName /\ r.public = public}
    IN  {[Database |-> r.dbname, Version |-> r.version] :
            r \in {x \in mine : \A y \in mine : y.dbname = x.dbname => y.version <= x.version}}

\* profilePage, lines 371-526: the owner's own page, with the public and the
\* private list.
profilePage(r, fault) ==
    CASE fault = "queryErr" -> Done(r, errorPage(500))
      [] userCount(r.dbOwner) = 0 -> Done(r, errorPage(404))
      [] OTHER ->
            Done(r, Reply("profilePage",
                          [NoData EXCEPT !.LoggedInUser = r.dbOwner,
                                         !.PublicDBs = ListedDBs(database_versions, r.dbOwner, TRUE),
                                         !.PrivateDBs = ListedDBs(database_versions, r.dbOwner, FALSE)],
                          FALSE))

\* userPage, lines 628-717: the owner is handed to profilePage; any other
\* viewer gets the list of the public query.
userPage(w, In) ==
    /\ Free(w)
    /\ \E loggedInUser \in In.viewers, userName \in In.owners, fault \in Outcomes(In, {"queryErr"}) :
        LET r == Log(NewReq("userPage", loggedInUser, userName, "", "", 0, NoForm), "access")
        IN  req' = [req EXCEPT ![w] =
                CASE loggedInUser # "" /\ loggedInUser = userName -> profilePage(r, fault)
                  [] fault = "queryErr" -> Done(r, errorPage(500))
                  [] userCount(userName) = 0 -> Done(r, errorPage(404))
                  [] OTHER ->
                        Done(r, Reply("userPage",
                                      [NoData EXCEPT !.LoggedInUser = loggedInUser,
                                                     !.DBRows = ListedDBs(database_versions, userName, TRUE)],
                                      FALSE))]
    /\ started' = started + 1
    /\ UNCHANGED <<database_versions, minio, memCache, pref_max_rows, upl, uploads, now>>

-----------------------------------------------------------------------------
(* prefHandler (src/unnamed/part_001, lines 468-514) *)

\* The validator's "numeric": a string of digits.  The model spells these.
Numeric(str) == str \in {"0", "2", "5", "12", "500", "501"}

\* com.Validate.Var(maxRows, "required,numeric,min=1,max=500"): maxRows is
\* the string r.PostFormValue returned, and on a string the validator's min
\* and max bound the number of characters, not the number it spells.
ValidateMaxRows(maxRows) ==
    Numeric(maxRows) /\ Len(maxRows) >= PrefMin /\ Len(maxRows) <= PrefMax

\* The whole handler: one read of the session and at most one update.
\* loggedInUser = "" stands for a request without a session.  The submitted
\* value is kept in maxRows (-1 when it spells no number) and kind "submit".
prefHandler(w, In) ==
    /\ req[w].pc \in {"idle", "done"}
    /\ \E loggedInUser \in In.viewers, maxRows \in In.prefs, out \in Outcomes(In, {"setPrefErr"}) :
        LET r == [NewReq("prefHandler", loggedInUser, "", "", "", 0, NoForm) EXCEPT
                     !.maxRows = Atoi(maxRows),
                     !.kind = IF maxRows = "" THEN "none" ELSE "submit"]
        IN  CASE loggedInUser = "" ->
                    /\ out = "ok"
                    /\ req' = [req EXCEPT ![w] = Done(r, [NoResp EXCEPT !.code = 307, !.kind = "redirect"])]
                    /\ UNCHANGED pref_max_rows
              [] loggedInUser # "" /\ maxRows = "" ->
                    /\ out = "ok"
                    /\ req' = [req EXCEPT ![w] = Done(r, Reply("prefPage", NoData, FALSE))]
                    /\ UNCHANGED pref_max_rows
              [] loggedInUser # "" /\ maxRows # "" /\ ~ValidateMaxRows(maxRows) ->
                    /\ out = "ok"
                    /\ req' = [req EXCEPT ![w] = Done(r, errorPage(400))]
                    /\ UNCHANGED pref_max_rows
              [] OTHER ->
                    IF out = "ok"
                    THEN /\ req' = [req EXCEPT ![w] =
                                      Done(r, [NoResp EXCEPT !.code = 307, !.kind = "redirect"])]
                         /\ pref_max_rows' = [pref_max_rows EXCEPT ![loggedInUser] = Atoi(maxRows)]
                    ELSE /\ req' = [req EXCEPT ![w] = Done(r, errorPage(500))]
                         /\ UNCHANGED pref_max_rows
    /\ UNCHANGED <<database_versions, minio, memCache, upl, started, uploads, now>>

-----------------------------------------------------------------------------
(* uploadDataHandler, newer generation (src/unnamed/part_001) *)

IdleUpl ==
    [pc |-> "idle", loggedInUser |-> "", dbName |-> "", public |-> FALSE, file |-> NoFile,
     newVer |-> 0, minioID |-> "", code |-> 0, h |-> ""]

\* strconv.ParseBool
ParseBoolOk(str) ==
    str \in {"1", "t", "T", "TRUE", "true", "True", "0", "f", "F", "FALSE", "false", "False"}

ParseBool(str) == str \in {"1", "t", "T", "TRUE", "true", "True"}

\* com.ValidateDB: the names the validator refuses.
InvalidDBNames == {"", "a/b.db"}

ValidateDB(dbName) == dbName \notin InvalidDBNames

\* What sqlite makes of an uploaded file.
FileOpens(f) == f \in FileIds \cup {"noTables"}

UplDone(u, code) == [u EXCEPT !.pc = "done", !.code = code]

\* The whole handler.  Lines 694-797: session, form, name and file checks;
\* 799-806: the next version number; 808-832: an object id that no version
\* of the user has, and the file stored under it; 834-854: the version added
\* to the metadata store.  loggedInUser = "" stands for a request without a
\* session.  The object is stored before the metadata row that names it, so
\* a reader never resolves to an object that is not there yet.
uploadDataHandler(u, In) ==
    /\ uploads < MaxUploads
    /\ \E loggedInUser \in In.uploaders, userPublic \in In.publics, dbName \in In.names,
          file \in In.files, minioID \in MinioIds, out \in Outcomes(In, {"storeErr", "addErr"}) :
        LET u0 == [IdleUpl EXCEPT !.loggedInUser = loggedInUser, !.dbName = dbName, !.file = file]
            highVer == HighestDBVersion(database_versions, loggedInUser, dbName)
            newVer == IF highVer > 0 THEN highVer + 1 ELSE 1
            rejected ==
                CASE loggedInUser = "" -> 401
                  [] ~ParseBoolOk(userPublic) -> 400
                  [] file = "missing" -> 500
                  [] ~ValidateDB(dbName) -> 400
                  [] file = "zeroLength" -> 400
                  [] ~FileOpens(file) -> 500
                  [] Len(Tables(file)) = 0 -> 500
                  [] OTHER -> 0
            u1 == [u0 EXCEPT !.public = ParseBool(userPublic), !.newVer = newVer,
                             !.minioID = minioID]
        IN  IF rejected # 0
            THEN /\ minioID = CHOOSE m \in MinioIds : TRUE
                 /\ out = "ok"
                 /\ upl' = [upl EXCEPT ![u] = UplDone(u0, rejected)]
                 /\ UNCHANGED <<minio, database_versions>>
            ELSE /\ CheckMinioIDAvail(database_versions, loggedInUser, minioID)
                 /\ minio' = IF out = "storeErr" THEN minio
                             ELSE [minio EXCEPT ![<<loggedInUser, minioID>>] =
                                     [file |-> file,
                                      tag |-> [owner |-> loggedInUser, dbname |-> dbName,
                                               version |-> newVer, public |-> u1.public]]]
                 /\ database_versions' =
                        IF out # "ok" THEN database_versions
                        ELSE database_versions \cup
                                {[username |-> loggedInUser, dbname |-> dbName, version |-> newVer,
                                  public |-> u1.public, minioid |-> minioID, at |-> now]}
                 /\ upl' = [upl EXCEPT ![u] = UplDone(u1, IF out = "ok" THEN 200 ELSE 500)]
    /\ uploads' = uploads + 1
    /\ UNCHANGED <<memCache, pref_max_rows, req, started, now>>

-----------------------------------------------------------------------------
(* uploadDataHandler step by step, for uploads that run concurrently: the
   newer generation (src/unnamed/part_001, h = "uploadDataHandler2") and the
   older one (src/unnamed/part_000, h = "uploadDataHandler") *)

\* The row that com.AddDatabase / INSERT INTO database_versions adds.
VersionRow(u) ==
    [username |-> u.loggedInUser, dbname |-> u.dbName, version |-> u.newVer,
     public |-> u.public, minioid |-> u.minioID, at |-> now]

\* The object that com.StoreMinioObject / minioClient.PutObject stores.
StoredObject(u) ==
    [file |-> u.file,
     tag |-> [owner |-> u.loggedInUser, dbname |-> u.dbName, version |-> u.newVer,
              public |-> u.public]]

\* The start of an upload without the check of the database name.
uploadDataHandler_version_anyName(u, In, h) ==
    /\ upl[u].pc \in {"idle", "done"}
    /\ uploads < MaxUploads
    /\ \E loggedInUser \in In.uploaders, userPublic \in In.publics, dbName \in In.names,
          file \in In.files :
        LET u0 == [IdleUpl EXCEPT !.loggedInUser = loggedInUser, !.dbName = dbName,
                                  !.file = file, !.h = h]
            highVer == HighestDBVersion(database_versions, loggedInUser, dbName)
            newVer == IF highVer > 0 THEN highVer + 1 ELSE 1
            rejected ==
                CASE loggedInUser = "" -> 401
                  [] ~ParseBoolOk(userPublic) -> 400
                  [] file = "missing" -> 500
                  [] file = "zeroLength" -> 400
                  [] ~FileOpens(file) -> 500
                  [] Len(Tables(file)) = 0 -> 500
                  [] OTHER -> 0
        IN  upl' = [upl EXCEPT ![u] =
                      IF rejected # 0
                      THEN UplDone(u0, rejected)
                      ELSE [u0 EXCEPT !.public = ParseBool(userPublic), !.newVer = newVer,
                                      !.pc = "minioid"]]
    /\ uploads' = uploads + 1
    /\ UNCHANGED <<database_versions, minio, memCache, pref_max_rows, req, started, now>>

\* part_001 lines 694-806, part_000 lines 912-1024: session, form, name and
\* file checks, then the next version number from com.HighestDBVersion.
uploadDataHandler_version(u, In, h) ==
    /\ upl[u].pc \in {"idle", "done"}
    /\ uploads < MaxUploads
    /\ \E loggedInUser \in In.uploaders, userPublic \in In.publics, dbName \in In.names,
          file \in In.files :
        LET u0 == [IdleUpl EXCEPT !.loggedInUser = loggedInUser, !.dbName = dbName,
                                  !.file = file, !.h = h]
            highVer == HighestDBVersion(database_versions, loggedInUser, dbName)
            newVer == IF highVer > 0 THEN highVer + 1 ELSE 1
            rejected ==
                CASE loggedInUser = "" -> 401
                  [] ~ParseBoolOk(userPublic) -> 400
                  [] file = "missing" -> 500
                  [] ~ValidateDB(dbName) -> 400
                  [] file = "zeroLength" -> 400
                  [] ~FileOpens(file) -> 500
                  [] Len(Tables(file)) = 0 -> 500
                  [] OTHER -> 0
        IN  upl' = [upl EXCEPT ![u] =
                      IF rejected # 0
                      THEN UplDone(u0, rejected)
                      ELSE [u0 EXCEPT !.public = ParseBool(userPublic), !.newVer = newVer,
                                      !.pc = "minioid"]]
    /\ uploads' = uploads + 1
    /\ UNCHANGED <<database_versions, minio, memCache, pref_max_rows, req, started, now>>

\* part_001 lines 815-825: a random object id, drawn again until
\* com.CheckMinioIDAvail finds no version of the user under it.  part_000
\* lines 1038-1047: a random object id, with no check.
uploadDataHandler_minioid(u) ==
    /\ upl[u].pc = "minioid"
    /\ \E minioID \in MinioIds :
        /\ upl[u].h = "uploadDataHandler2" =>
               CheckMinioIDAvail(database_versions, upl[u].loggedInUser, minioID)
        /\ upl' = [upl EXCEPT ![u] = [@ EXCEPT !.minioID = minioID, !.pc = "store"]]
    /\ UNCHANGED <<database_versions, minio, memCache, pref_max_rows, req, started, uploads, now>>

\* uploadDataHandler_store going on to the metadata row when storing fails.
uploadDataHandler_store_ignoresError(u, In) ==
    /\ upl[u].pc = "store"
    /\ \E out \in Outcomes(In, {"storeErr"}) :
        /\ minio' = IF out = "storeErr" THEN minio
                    ELSE [minio EXCEPT ![<<upl[u].loggedInUser, upl[u].minioID>>] = StoredObject(upl[u])]
        /\ upl' = [upl EXCEPT ![u] = [@ EXCEPT !.pc = "add"]]
    /\ UNCHANGED <<database_versions, memCache, pref_max_rows, req, started, uploads, now>>

\* part_001 lines 827-832, part_000 lines 1049-1055: store the file under
\* the object id; InternalServerError when storing fails.
uploadDataHandler_store(u, In) ==
    /\ upl[u].pc = "store"
    /\ \E out \in Outcomes(In, {"storeErr"}) :
        /\ minio' = IF out = "storeErr" THEN minio
                    ELSE [minio EXCEPT ![<<upl[u].loggedInUser, upl[u].minioID>>] = StoredObject(upl[u])]
        /\ upl' = [upl EXCEPT ![u] = IF out = "storeErr" THEN UplDone(@, 500)
                                     ELSE [@ EXCEPT !.pc = "add"]]
    /\ UNCHANGED <<database_versions, memCache, pref_max_rows, req, started, uploads, now>>

\* part_001 lines 834-854, part_000 lines 1057-1093: add the version to the
\* metadata store.  The schema is not part of the repository: when a row of
\* the same (owner, name, version) is already there, the insert may be
\* refused or may add a second row.
uploadDataHandler_add(u, In) ==
    /\ upl[u].pc = "add"
    /\ \E out \in Outcomes(In, {"addErr"}) \cup
                   (IF \E row \in database_versions :
                           /\ row.username = upl[u].loggedInUser /\ row.dbname = upl[u].dbName
                           /\ row.version = upl[u].newVer
                    THEN {"refused"} ELSE {}) :
        /\ database_versions' = IF out = "ok" THEN database_versions \cup {VersionRow(upl[u])}
                                ELSE database_versions
        /\ upl' = [upl EXCEPT ![u] = UplDone(@, IF out = "ok" THEN 200 ELSE 500)]
    /\ UNCHANGED <<minio, memCache, pref_max_rows, req, started, uploads, now>>

-----------------------------------------------------------------------------
(* Specifications *)

Init ==
    /\ database_versions = {}
    /\ minio = [o \in Users \X MinioIds |-> NoObject]
    /\ memCache = {}
    /\ pref_max_rows = [u \in Users |-> AnonMaxRows]
    /\ req = [w \in Workers |-> IdleReq]
    /\ upl = [u \in Uploaders |-> IdleUpl]
    /\ started = 0
    /\ uploads = 0
    /\ now = 0

\* The passing of time, in steps of TickStep seconds up to MaxTime.  A
\* request is served in less than one step of the clock: time passes between
\* requests, not during one.
Tick ==
    /\ now + TickStep <= MaxTime
    /\ \A w \in Workers : req[w].pc \in {"idle", "done"}
    /\ now' = now + TickStep
    /\ UNCHANGED <<database_versions, minio, memCache, pref_max_rows, req, upl, started, uploads>>

Upload(In) == uploadDataHandler("u1", In)

UploadSteps(U, In, H) ==
    \E u \in U :
        \/ \E h \in H : uploadDataHandler_version(u, In, h)
        \/ uploadDataHandler_minioid(u)
        \/ uploadDataHandler_store(u, In)
        \/ uploadDataHandler_add(u, In)

TableView(W, In) ==
    \E w \in W :
        \/ tableViewHandler_lookup(w, In)
        \/ tableViewHandler_query(w, In)
        \/ tableViewHandler_cacheloc(w, In)
        \/ tableViewHandler_maxrows(w)
        \/ tableViewHandler_cacheget(w, In)
        \/ tableViewHandler_fetch(w, In)
        \/ tableViewHandler_cacheput(w, In)

TableView2(W, In) ==
    \E w \in W :
        \/ tableViewHandler2_access(w, In)
        \/ tableViewHandler2_maxrows(w)
        \/ tableViewHandler2_fetch(w, In)

DatabasePage(W, In) ==
    \E w \in W :
        \/ databasePage_access(w, In)
        \/ databasePage_maxrows(w)
        \/ databasePage_cacheget(w, In)
        \/ databasePage_fetch(w, In)
        \/ databasePage_cacheput(w, In)

VisData(W, In) ==
    \E w \in W :
        \/ visData_access(w, In)
        \/ visData_cacheget(w, In)
        \/ visData_fetch(w, In)
        \/ visData_cacheput(w, In)

VisualisePage(W, In) ==
    \E w \in W :
        \/ visualisePage_access(w, In)
        \/ visualisePage_fetch(w, In)

DownloadCSV(W, In) ==
    \E w \in W :
        \/ downloadCSVHandler_access(w, In, "downloadCSVHandler")
        \/ downloadCSVHandler_fetch(w, In)
        \/ downloadCSVHandler_access(w, In, "downloadCSVHandler2")
        \/ downloadCSVHandler2_fetch(w, In)

Pref(W, In) == \E w \in W : prefHandler(w, In)

UserPage(W, In) == \E w \in W : userPage(w, In)

\* Spec: two workers serve table-view, database-page and visualisation-data
\* requests of the owner, another user and an anonymous viewer while the
\* owner uploads public and private versions.
AccessInputs ==
    [viewers |-> {"", "pub", "bob"}, owners |-> {"pub"}, tables |-> {"t"}, versions |-> {0},
     forms |-> {NoForm}, faults |-> {}, uploaders |-> {"pub"}, publics |-> {"true", "false"},
     files |-> {"fA"}, prefs |-> {}, names |-> DBNames]

Next ==
    \/ Upload(AccessInputs)
    \/ TableView(Workers, AccessInputs)
    \/ DatabasePage(Workers, AccessInputs)
    \/ VisData(Workers, AccessInputs)

Spec == Init /\ [][Next]_vars

\* ReadSpec: one worker serves every read endpoint in turn, on tables that
\* are large, empty, absent or not named, for an anonymous viewer and for a
\* viewer who changes the stored preference.
ReadInputs ==
    [viewers |-> {"", "pub"}, owners |-> {"pub"}, tables |-> {"", "big", "e", "zz"}, versions |-> {0},
     forms |-> {NoForm}, faults |-> {}, uploaders |-> {"pub"}, publics |-> {"true"},
     files |-> {"fB"}, prefs |-> {"2"}, names |-> DBNames]

ReadNext ==
    \/ Upload(ReadInputs)
    \/ Pref({"w1"}, ReadInputs)
    \/ TableView({"w1"}, ReadInputs)
    \/ TableView2({"w1"}, ReadInputs)
    \/ DatabasePage({"w1"}, ReadInputs)
    \/ VisData({"w1"}, ReadInputs)
    \/ VisualisePage({"w1"}, ReadInputs)
    \/ DownloadCSV({"w1"}, ReadInputs)

ReadSpec == Init /\ [][ReadNext]_vars

\* ResolveSpec: one worker serves table-view requests of both generations
\* for the owner and an anonymous viewer while the owner uploads public and
\* private versions.
ResolveInputs ==
    [viewers |-> {"", "pub"}, owners |-> {"pub"}, tables |-> {"t"}, versions |-> {0},
     forms |-> {NoForm}, faults |-> {}, uploaders |-> {"pub"}, publics |-> {"true", "false"},
     files |-> {"fA"}, prefs |-> {}, names |-> DBNames]

ResolveNext ==
    \/ Upload(ResolveInputs)
    \/ TableView({"w1"}, ResolveInputs)
    \/ TableView2({"w1"}, ResolveInputs)

ResolveSpec == Init /\ [][ResolveNext]_vars

\* VisSpec: one worker serves visualisation-data requests with column and
\* filter parameters.
VisFilters ==
    {[wherecol |-> "", wheretype |-> "", whereval |-> ""],
     [wherecol |-> "a", wheretype |-> "<", whereval |-> "2"],
     [wherecol |-> "", wheretype |-> "<", whereval |-> "2"],
     [wherecol |-> "a", wheretype |-> "~", whereval |-> "2"]}

VisForms ==
    {[xcol |-> x, ycol |-> y, wherecol |-> f.wherecol, wheretype |-> f.wheretype,
      whereval |-> f.whereval] :
        x \in {"", "a", "ab", "zz"}, y \in {"bc", "c"}, f \in VisFilters}

VisInputs ==
    [viewers |-> {""}, owners |-> {"pub"}, tables |-> {"t"}, versions |-> {0},
     forms |-> VisForms, faults |-> {}, uploaders |-> {"pub"}, publics |-> {"true"},
     files |-> {"fA"}, prefs |-> {}, names |-> DBNames]

VisNext ==
    \/ Upload(VisInputs)
    \/ VisData({"w1"}, VisInputs)

VisSpec == Init /\ [][VisNext]_vars

\* FaultSpec: one worker serves the read endpoints for the owner of a public
\* database while the object store, the file reader, the serialiser and the
\* cache fail at any step.
FaultInputs ==
    [viewers |-> {"pub"}, owners |-> {"pub"}, tables |-> {"t"}, versions |-> {0},
     forms |-> {[xcol |-> "a", ycol |-> "bc", wherecol |-> "", wheretype |-> "", whereval |-> ""]},
     faults |-> ReadFaults \cup {"cacheGetErr", "cachePutErr", "scanErr", "renderErr", "copyErr"},
     uploaders |-> {"pub"}, publics |-> {"true"}, files |-> {"fA"}, prefs |-> {}, names |-> DBNames]

FaultNext ==
    \/ Upload(FaultInputs)
    \/ TableView({"w1"}, FaultInputs)
    \/ TableView2({"w1"}, FaultInputs)
    \/ DatabasePage({"w1"}, FaultInputs)
    \/ VisData({"w1"}, FaultInputs)
    \/ DownloadCSV({"w1"}, FaultInputs)

FaultSpec == Init /\ [][FaultNext]_vars

\* TtlSpec: one worker serves table-view and database-page requests of the
\* owner while the owner uploads versions and time passes, so that cache
\* entries of both lifetimes expire.
TtlInputs ==
    [viewers |-> {"pub"}, owners |-> {"pub"}, tables |-> {"t"}, versions |-> {0},
     forms |-> {NoForm}, faults |-> {}, uploaders |-> {"pub"}, publics |-> {"true"},
     files |-> {"fA"}, prefs |-> {}, names |-> DBNames]

TtlNext ==
    \/ Tick
    \/ Upload(TtlInputs)
    \/ TableView({"w1"}, TtlInputs)
    \/ DatabasePage({"w1"}, TtlInputs)

TtlSpec == Init /\ [][TtlNext]_vars

\* UploadSpec: two upload workers serve uploads of both generations of the
\* handler, by two users, concurrently and step by step, while the object
\* store and the metadata store may fail.
UploadInputs ==
    [viewers |-> {}, owners |-> {}, tables |-> {}, versions |-> {0},
     forms |-> {NoForm}, faults |-> {"storeErr", "addErr"}, uploaders |-> {"pub", "bob"},
     publics |-> {"true", "false"}, files |-> {"fA", "fB"}, prefs |-> {}, names |-> DBNames]

UploadNext == UploadSteps(Uploaders, UploadInputs, {"uploadDataHandler", "uploadDataHandler2"})

UploadSpec == Init /\ [][UploadNext]_vars

\* CellSpec: one worker serves the table view, the database page and the
\* CSV export of tables whose first row holds cells of every type.
CellInputs ==
    [viewers |-> {"", "pub"}, owners |-> {"pub"}, tables |-> {"", "c", "t"}, versions |-> {0},
     forms |-> {NoForm}, faults |-> {}, uploaders |-> {"pub"}, publics |-> {"true"},
     files |-> {"fA", "fC"}, prefs |-> {}, names |-> DBNames]

CellNext ==
    \/ Upload(CellInputs)
    \/ TableView({"w1"}, CellInputs)
    \/ TableView2({"w1"}, CellInputs)
    \/ DatabasePage({"w1"}, CellInputs)
    \/ DownloadCSV({"w1"}, CellInputs)

CellSpec == Init /\ [][CellNext]_vars

\* PrefSpec: one worker serves preference submissions of two users and of
\* a client without a session, and table views under the stored preference.
PrefInputs ==
    [viewers |-> {"", "pub", "bob"}, owners |-> {"pub"}, tables |-> {"big"}, versions |-> {0},
     forms |-> {NoForm}, faults |-> {"setPrefErr"}, uploaders |-> {"pub"}, publics |-> {"true"},
     files |-> {"fB"}, prefs |-> {"", "0", "2", "500", "501", "abc"}, names |-> DBNames]

PrefNext ==
    \/ Upload(PrefInputs)
    \/ Pref({"w1"}, PrefInputs)
    \/ TableView2({"w1"}, PrefInputs)

PrefSpec == Init /\ [][PrefNext]_vars

\* Uploads with every defect the handler checks for, beside sound ones, by
\* two concurrent uploaders of both generations.
RejectInputs ==
    [viewers |-> {}, owners |-> {}, tables |-> {}, versions |-> {0},
     forms |-> {NoForm}, faults |-> {"storeErr", "addErr"}, uploaders |-> {"", "pub"},
     publics |-> {"true", "maybe"},
     files |-> {"fA", "missing", "zeroLength", "notDb", "noTables"}, prefs |-> {},
     names |-> {"d.db", "a/b.db"}]

RejectNext == UploadSteps(Uploaders, RejectInputs, {"uploadDataHandler", "uploadDataHandler2"})

RejectSpec == Init /\ [][RejectNext]_vars

\* The user page of an owner whose databases get public and private
\* versions, asked for by the owner, by another user, anonymously, and for a
\* user that does not exist.
UserInputs ==
    [viewers |-> {"", "pub", "bob"}, owners |-> {"pub", "bob", "zed"}, tables |-> {}, versions |-> {0},
     forms |-> {NoForm}, faults |-> {"queryErr"}, uploaders |-> {"pub", "bob"},
     publics |-> {"true", "false"}, files |-> {"fA"}, prefs |-> {}, names |-> DBNames]

UserNext ==
    \/ Upload(UserInputs)
    \/ UserPage({"w1"}, UserInputs)

UserSpec == Init /\ [][UserNext]_vars

\* The cached row views beside preference changes: three viewers, a table
\* of more rows than any limit.  A preference submission is
\* a single step and is not counted among the started requests.
LimitInputs ==
    [viewers |-> {"", "pub", "bob"}, owners |-> {"pub"}, tables |-> {"big"}, versions |-> {0},
     forms |-> {NoForm}, faults |-> {}, uploaders |-> {"pub"}, publics |-> {"true"},
     files |-> {"fB"}, prefs |-> {"2", "12"}, names |-> DBNames]

LimitNext ==
    \/ Upload(LimitInputs)
    \/ Pref({"w1"}, LimitInputs)
    \/ TableView({"w1"}, LimitInputs)
    \/ DatabasePage({"w1"}, LimitInputs)

LimitSpec == Init /\ [][LimitNext]_vars

\* Two workers serve the cached read endpoints of src/ side by side while the
\* database gets a second version; each handler runs in a goroutine of its
\* own (net/http), so a request that can take a step eventually takes one.
ConcInputs ==
    [viewers |-> {"pub"}, owners |-> {"pub"}, tables |-> {""}, versions |-> {0},
     forms |-> {NoForm}, faults |-> {"readErr", "cachePutErr"}, uploaders |-> {"pub"},
     publics |-> {"true"}, files |-> {"fA", "fB"}, prefs |-> {}, names |-> DBNames]

Serve(w) == TableView({w}, ConcInputs) \/ DatabasePage({w}, ConcInputs)

ConcNext ==
    \/ Upload(ConcInputs)
    \/ \E w \in Workers : Serve(w)

ConcSpec == Init /\ [][ConcNext]_vars /\ \A w \in Workers : WF_vars(Serve(w))

-----------------------------------------------------------------------------
(* Properties *)

\* The payload of an answered request, and the version it was rendered from.
Answered(w) == req[w].pc = "done" /\ req[w].resp.data.src.version > 0

HighestVisible(rows, viewer, dbOwner, dbName) ==
    LET mine == {r \in rows : r.username = dbOwner /\ r.dbname = dbName}
        seen == IF viewer = dbOwner THEN mine ELSE {r \in mine : r.public}
    IN  {r \in seen : \A s \in seen : s.version <= r.version}

\* A step in which worker w's table-view request gets its object location:
\* from the metadata store (a miss of the location cache in the older
\* handler, always in the newer one) or from the location cache.
ResolvesFromStore(w) ==
    \/ req[w].h = "tableViewHandler" /\ req[w].pc = "query" /\ req'[w].pc = "cacheloc"
    \/ req[w].pc \in {"idle", "done"} /\ req'[w].h = "tableViewHandler2" /\ req'[w].pc = "maxrows"

ResolvesFromCache(w) ==
    req[w].pc \in {"idle", "done"} /\ req'[w].h = "tableViewHandler" /\ req'[w].pc = "maxrows"

ResolvedToHighest(w) ==
    req'[w].minioId \in
        {r.minioid : r \in HighestVisible(database_versions, req'[w].loggedInUser,
                                          req'[w].dbOwner, req'[w].dbName)}

ResolvedToVisible(w) ==
    \E r \in database_versions :
        /\ r.username = req'[w].dbOwner /\ r.dbname = req'[w].dbName
        /\ r.minioid = req'[w].minioId
        /\ (r.public \/ req'[w].loggedInUser = req'[w].dbOwner)

\* C2 as stated: every table-view request with no version resolves to the
\* highest version of the metadata store for the owner, and to the highest
\* public version for any other viewer.
AlwaysResolvesToHighest ==
    [][\A w \in Workers :
          (ResolvesFromStore(w) \/ ResolvesFromCache(w)) => ResolvedToHighest(w)]_vars

\* C2 as amended: a resolution that queries the metadata store yields the
\* highest version for the owner and the highest public version for any
\* other viewer; a resolution served from the location cache yields a version
\* the viewer may see, not always the highest.
StoreResolvesToHighest ==
    [][\A w \in Workers :
          /\ ResolvesFromStore(w) => ResolvedToHighest(w)
          /\ ResolvesFromCache(w) => ResolvedToVisible(w)]_vars

\* C2 happens: the older handler has resolved, from the metadata store, an
\* anonymous viewer's request to a public version that is not the highest
\* version of the database.
ResolvedBelowPrivate ==
    \E w \in Workers :
        /\ req[w].h = "tableViewHandler" /\ req[w].pc = "cacheloc"
        /\ req[w].loggedInUser # req[w].dbOwner
        /\ \E r \in database_versions, s \in database_versions :
              /\ r.minioid = req[w].minioId /\ r.public
              /\ ~s.public /\ s.version > r.version

\* Two requests that differ in nothing but the viewer and have both built
\* their cache keys.
DifferOnlyInViewer(a, b) ==
    /\ req[a].h = req[b].h
    /\ req[a].h \in {"tableViewHandler", "databasePage", "visData"}
    /\ req[a].key # << >> /\ req[b].key # << >>
    /\ req[a].dbOwner = req[b].dbOwner /\ req[a].dbName = req[b].dbName
    /\ req[a].requestedTable = req[b].requestedTable /\ req[a].form = req[b].form
    /\ req[a].loggedInUser # req[b].loggedInUser

\* A database that has versions, none of them public.
PrivateDatabase(dbOwner, dbName) ==
    /\ VersionsOf(database_versions, dbOwner, dbName) # {}
    /\ \A r \in VersionsOf(database_versions, dbOwner, dbName) : ~r.public

KeysApart(a, b) ==
    /\ req[a].key # req[b].key
    /\ (req[a].h = "tableViewHandler" => req[a].qkey # req[b].qkey)

\* C3 as stated: two requests that differ only in the viewer, against the
\* same private database, never have the same rendered-result key or the same
\* location key.
ViewersNeverShareKeys ==
    \A a \in Workers, b \in Workers :
        (DifferOnlyInViewer(a, b) /\ PrivateDatabase(req[a].dbOwner, req[a].dbName))
            => KeysApart(a, b)

\* C3 as amended: two requests that differ only in the viewer, one of them
\* the owner's and the other not, never have the same rendered-result key or
\* the same location key, whatever the versions of the database; two viewers
\* who are both not the owner share the keys of the public namespace.
OwnerNeverSharesKeys ==
    \A a \in Workers, b \in Workers :
        (DifferOnlyInViewer(a, b) /\ req[a].loggedInUser = req[a].dbOwner)
            => KeysApart(a, b)

\* C3 happens: the owner and another viewer have both been answered by the
\* older table-view handler for the same table of a database whose latest
\* version is private, each under keys that end in the same row limit.
OwnerAndViewerKeyed ==
    \E a \in Workers, b \in Workers :
        /\ DifferOnlyInViewer(a, b) /\ req[a].loggedInUser = req[a].dbOwner
        /\ req[a].h = "tableViewHandler"
        /\ Answered(a) /\ Answered(b)
        /\ ~req[a].resp.data.src.public
        /\ req[a].maxRows = req[b].maxRows

\* The file of the version a payload was rendered from.
FileOfVersion(tag) ==
    IF \E o \in DOMAIN minio : minio[o].tag = tag
    THEN minio[CHOOSE o \in DOMAIN minio : minio[o].tag = tag].file
    ELSE NoFile

\* The file a request was resolved to.
FileOfRequest(w) == ObjectAt(req[w].dbOwner, req[w].minioId).file

\* C4: a cached visualisation-data payload is only ever served to a request
\* with the same (owner, database, table, xcol, ycol, wherecol, wheretype,
\* whereval) tuple as the request that stored it.
CachedOnlyForSameShape ==
    \A w \in Workers :
        (req[w].h = "visData" /\ req[w].pc = "done" /\ req[w].resp.cached)
            => req[w].resp.data.shape =
                 <<req[w].dbOwner, req[w].dbName, req[w].requestedTable, req[w].form>>

\* The row limit the claim gives each request.
LimitOf(w) ==
    CASE req[w].h = "visualisePage" -> VisPageMaxRows
      [] req[w].h = "visData" -> VisDataMaxRows
      [] req[w].loggedInUser = "" -> AnonMaxRows
      [] OTHER -> pref_max_rows[req[w].loggedInUser]

CSVHandlers == {"downloadCSVHandler", "downloadCSVHandler2"}

\* C5 as stated: every endpoint that reads rows, the CSV export included,
\* returns at most its row limit of rows: 10 for an anonymous viewer, the
\* stored preference for a logged-in viewer, 1000 and 2500 for the
\* visualisation endpoints.
RowLimitAlwaysApplied ==
    \A w \in Workers : Answered(w) => req[w].resp.data.Records <= LimitOf(w)

\* C5 as amended: table view, database page, visualise page and
\* visualisation data return at most their row limit of rows; the CSV export
\* returns every row of the table.
RowLimitAppliedToViews ==
    \A w \in Workers :
        /\ (Answered(w) /\ req[w].h \notin CSVHandlers)
                => req[w].resp.data.Records <= LimitOf(w)
        /\ (Answered(w) /\ req[w].h \in CSVHandlers /\ req[w].resp.data.Tablename # "")
                => req[w].resp.data.Records =
                     TableRows(FileOfVersion(req[w].resp.data.src), req[w].resp.data.Tablename)

\* C5 happens: a logged-in viewer whose stored preference is 2 has been
\* shown 2 rows of a table of 2501 on the database page.
LimitCutsLargeTable ==
    \E w \in Workers :
        /\ Answered(w) /\ req[w].h = "databasePage"
        /\ req[w].loggedInUser # "" /\ pref_max_rows[req[w].loggedInUser] = 2
        /\ req[w].resp.data.Records = 2
        /\ req[w].resp.data.RowCount = 2501

TableViews == {"tableViewHandler", "tableViewHandler2"}

\* A table-view request that was answered after its rows were read, now or
\* when the answer was cached.
TableViewAnswered(w) ==
    /\ req[w].h \in TableViews /\ req[w].pc = "done"
    /\ req[w].resp.kind \in {"json", "emptyset"}

\* The table a table-view answer was read from, and the number of rows it
\* holds in the version the answer was rendered from.
TableOfAnswer(w) ==
    LET f == FileOfVersion(req[w].resp.data.src)
    IN  IF req[w].requestedTable = "" THEN Tables(f)[1] ELSE req[w].requestedTable

TotalOfAnswer(w) == TableRows(FileOfVersion(req[w].resp.data.src), TableOfAnswer(w))

CarriesCounts(w) ==
    /\ req[w].resp.kind = "json"
    /\ req[w].resp.data.Records = Min(req[w].maxRows, TotalOfAnswer(w))
    /\ req[w].resp.data.RowCount = Min(req[w].maxRows, TotalOfAnswer(w))
    /\ req[w].resp.data.TotalRows = TotalOfAnswer(w)

\* C6 as stated: the answer to a table-view request with row limit N against
\* a table of T rows carries min(N, T) records, RowCount = min(N, T) and
\* TotalRows = T.
TableViewCarriesCounts ==
    \A w \in Workers : TableViewAnswered(w) => CarriesCounts(w)

\* C6 as amended: when min(N, T) is at least 1 the answer carries min(N, T)
\* records, RowCount = min(N, T) and TotalRows = T, T being the rows of the
\* table in the version the answer was rendered from; when min(N, T) is 0 the
\* answer is the empty-set marker, which carries no counts.
TableViewCountsOrMarker ==
    \A w \in Workers :
        TableViewAnswered(w) =>
            IF Min(req[w].maxRows, TotalOfAnswer(w)) >= 1
            THEN CarriesCounts(w)
            ELSE req[w].resp.kind = "emptyset"

\* C6 happens: a table-view request with row limit 10 has been answered with
\* 10 records of a table of 2501 rows, and TotalRows = 2501.
TenOfMany ==
    \E w \in Workers :
        /\ TableViewAnswered(w) /\ req[w].maxRows = 10
        /\ req[w].resp.data.Records = 10 /\ req[w].resp.data.TotalRows = 2501

\* The reads and counts a request has issued.
ReadsOf(w) == {req[w].ops[i] : i \in {j \in 1..Len(req[w].ops) : req[w].ops[j].op \in {"read", "count"}}}

\* C7: no table name that is not in the opened file's table enumeration
\* ever reaches the reader.
OnlyListedTablesRead ==
    \A w \in Workers : \A o \in ReadsOf(w) :
        tablePresent(Tables(FileOfRequest(w)), o.table)

\* C8: in a visualisation-data request, no projected column and no filter
\* column that the selected table does not have ever reaches the reader.
OnlyListedColumnsRead ==
    \A w \in Workers : \A o \in ReadsOf(w) :
        req[w].h = "visData" =>
            LET has == SeqToSet(ColumnNames(FileOfRequest(w), o.table))
            IN  /\ SeqToSet(o.cols) \subseteq has
                /\ \A k \in 1..Len(o.where) : o.where[k].Column \in has

\* C9: when no table is requested, table view, database page, visualise page
\* and visualisation data pass the first table of the file's enumeration to
\* the reader and report it as the result's table.
DefaultsToFirstTable ==
    \A w \in Workers :
        (req[w].requestedTable = "" /\ req[w].h \notin CSVHandlers) =>
            /\ \A o \in ReadsOf(w) : o.table = Tables(FileOfRequest(w))[1]
            /\ (req[w].pc = "done" /\ ~req[w].resp.cached /\ req[w].resp.kind \in {"json", "page", "vispage"})
                    => req[w].resp.data.Tablename = Tables(FileOfRequest(w))[1]

\* C10: a request whose access check fails is answered Forbidden or
\* BadRequest, and the access check is the last thing it does.
AccessFailureIsRefused ==
    \A w \in Workers :
        req[w].accessFailed =>
            /\ req[w].pc = "done"
            /\ req[w].resp.code \in {400, 403}
            /\ req[w].ops[Len(req[w].ops)].op \in {"access", "query"}

\* The steps of a read pipeline from the fetch of the object onward.
PipelineStages == {"fetch", "open", "tables", "read", "count", "marshal"}

\* A request whose pipeline stopped at a failed step.
FailedAfterFetch(w) == req[w].pc = "done" /\ req[w].stop \in PipelineStages

\* C11: when a step of a read from the fetch of the object onward fails
\* (fetch, open, table enumeration, zero tables, read, row count,
\* serialisation), the request ends with an error response: never status 200
\* with an empty or partial body, never no response at all.
PipelineFailureIsAnError ==
    \A w \in Workers :
        FailedAfterFetch(w) => req[w].resp.kind = "error" /\ req[w].resp.code >= 400

\* The last entry of a request's operation log.
LastOp(r) == IF Len(r.ops) = 0 THEN Op("none", "", 0) ELSE r.ops[Len(r.ops)]

\* C12: a failure of the cache never breaks a read.  A cache get that
\* reports an error leaves the request where a miss leaves it (the query of
\* the metadata store, or the fetch of the object); a cache put that reports
\* an error leaves the request and its response as a successful put does;
\* neither changes the cache, and neither yields an error response.
CacheErrorsNeverBreakReads ==
    [][\A w \in Workers :
          req'[w].ops # req[w].ops =>
              /\ LastOp(req'[w]).op = "cachegetErr" =>
                    req'[w].pc \in {"query", "fetch"} /\ memCache' = memCache
              /\ LastOp(req'[w]).op = "cacheputErr" =>
                    /\ memCache' = memCache
                    /\ \/ req'[w].pc = "maxrows" /\ req[w].pc = "cacheloc"
                       \/ req'[w].pc = "done" /\ req[w].pc = "cacheloc" /\ req[w].minioId = ""
                       \/ /\ req'[w].pc = "done"
                          /\ req'[w].resp = Reply(req[w].kind, req[w].data, FALSE)]_vars

\* A request answered with a freshly rendered payload although a cache call
\* made for it reported an error.
ServedDespiteCacheError ==
    \E w \in Workers :
        /\ req[w].pc = "done" /\ req[w].cacheErr
        /\ LastOp(req[w]).op = "cacheputErr"
        /\ req[w].resp.code = 200 /\ req[w].resp.kind \in {"json", "page"}
        /\ req[w].resp.data.src.version > 0

\* The rows of the versions of a database that a viewer may be resolved to.
VisibleRows(viewer, dbOwner, dbName) ==
    {row \in database_versions :
        /\ row.username = dbOwner /\ row.dbname = dbName
        /\ (viewer = dbOwner \/ row.public)}

\* C13: the staleness window of a cached result is the lifetime of a
\* rendered-result entry.  When a version became the resolver's answer for a
\* viewer at time u, a table-view or database-page request of that viewer
\* that arrives later than u + CacheTime is answered with a payload rendered
\* from that version or a newer one.
StaleNoLongerThanCacheTime ==
    \A w \in Workers :
        (Answered(w) /\ req[w].h \in {"tableViewHandler", "databasePage"}) =>
            \A row \in VisibleRows(req[w].loggedInUser, req[w].dbOwner, req[w].dbName) :
                req[w].at > row.at + CacheTime => req[w].resp.data.src.version >= row.version

\* The rows of the versions of a database.
RowsOf(dbOwner, dbName) ==
    {row \in database_versions : row.username = dbOwner /\ row.dbname = dbName}

\* C14: after any interleaving of uploads to the same (owner, name), the
\* recorded version numbers are exactly 1..n, n the number of successful
\* uploads, and no two versions of the pair share a number.
VersionsAreOneToN ==
    \A dbOwner \in Users, dbName \in DBNames :
        {row.version : row \in RowsOf(dbOwner, dbName)} = 1..Cardinality(RowsOf(dbOwner, dbName))

\* C15: a version is immutable once created.  No step of any upload removes
\* or changes the row of an existing version (object id, public flag), or
\* changes the object the row names (the stored bytes, their size and hash).
VersionsNeverChange ==
    [][\A row \in database_versions :
          /\ row \in database_versions'
          /\ minio'[<<row.username, row.minioid>>] = minio[<<row.username, row.minioid>>]]_vars

\* C16: there is never a dangling reference.  Every version row of the
\* metadata store names an object that is present in the object store.
NoDanglingReference ==
    \A row \in database_versions : minio[<<row.username, row.minioid>>].file # NoFile

\* An upload whose file could not be stored has ended with
\* InternalServerError and without a row, beside a version that was added.
StoreFailedWithoutRow ==
    \E u \in Uploaders :
        /\ upl[u].pc = "done" /\ upl[u].code = 500 /\ upl[u].minioID # ""
        /\ minio[<<upl[u].loggedInUser, upl[u].minioID>>].file = NoFile
        /\ \E row \in database_versions : row.username = upl[u].loggedInUser

\* The responses that carry decoded rows: the JSON of the database page and
\* the table view, and the CSV export.
RowHandlers ==
    {"databasePage", "tableViewHandler", "tableViewHandler2", "downloadCSVHandler",
     "downloadCSVHandler2"}

\* The stored cells behind the first record of an answer.
StoredRowOfAnswer(w) ==
    StoredRow(FileOfVersion(req[w].resp.data.src), req[w].resp.data.Tablename)

\* An answer that carries a decoded first record.
CarriesRow(w) ==
    /\ Answered(w) /\ req[w].h \in RowHandlers
    /\ req[w].resp.data.Row1 # << >>

\* What a client sees of a decoded cell: its type tag and its value.
Seen(v) == <<v.Type, v.Value>>

\* C17: in every output a stored NULL decodes to a cell that differs from
\* the decoding of every text cell, whatever the text is.
NullDistinctFromText ==
    \A w \in Workers :
        CarriesRow(w) =>
            \A i, j \in 1..Len(req[w].resp.data.Row1) :
                (StoredRowOfAnswer(w)[i].type = "Null" /\ StoredRowOfAnswer(w)[j].type = "Text")
                    => Seen(req[w].resp.data.Row1[i]) # Seen(req[w].resp.data.Row1[j])

\* C18: a binary cell is always replaced by the placeholder marker; no
\* response carries the content of a binary cell, as it is or encoded.
BinaryNeverInlined ==
    \A w \in Workers :
        CarriesRow(w) =>
            \A i \in 1..Len(req[w].resp.data.Row1) :
                StoredRowOfAnswer(w)[i].type = "Blob" =>
                    /\ req[w].resp.data.Row1[i].Value = "<i>BINARY DATA</i>"
                    /\ req[w].resp.data.Row1[i].Value \notin
                          {StoredRowOfAnswer(w)[i].text, Base64(StoredRowOfAnswer(w)[i].text)}

\* The filter triple of a visualisation-data request, as a where clause.
ClauseOf(form) == [Column |-> form.wherecol, Type |-> form.wheretype, Value |-> form.whereval]

\* A request that supplies a whole filter triple.
SuppliesFilter(form) ==
    form.wherecol # "" /\ form.wheretype \in WhereTypes /\ form.whereval # ""

\* C19: when a visualisation-data request supplies a filter triple, every
\* row of the response, fresh or cached, satisfies the filter: the reader
\* applied the filter, or every row of the table satisfies it.
FilterAlwaysApplied ==
    \A w \in Workers :
        (Answered(w) /\ req[w].h = "visData" /\ SuppliesFilter(req[w].form)) =>
            \/ req[w].resp.data.Records = 0
            \/ ClauseOf(req[w].form) \in SeqToSet(req[w].resp.data.Where)
            \/ MatchingRows(FileOfVersion(req[w].resp.data.src), req[w].requestedTable,
                            <<ClauseOf(req[w].form)>>)
                  = TableRows(FileOfVersion(req[w].resp.data.src), req[w].requestedTable)

\* C20: a visualisation-data request whose filter operator is none of =, !=,
\* <, <=, >, >=, LIKE is rejected with BadRequest before any access check,
\* cache access or read.
UnknownOperatorIsBadRequest ==
    \A w \in Workers :
        (/\ req[w].h = "visData" /\ req[w].pc = "done"
         /\ req[w].form.wheretype \notin WhereTypes \cup {""}) =>
            /\ req[w].resp.kind = "error" /\ req[w].resp.code = 400
            /\ req[w].ops = << >>

\* C21: after any sequence of preference submissions a user's stored
\* max-rows preference is an integer in 1..500; a submission that spells no
\* number or a number outside 1..500 is answered BadRequest.
PrefAlwaysInRange ==
    /\ \A u \in Users : pref_max_rows[u] \in PrefMin..PrefMax
    /\ \A w \in Workers :
          (/\ req[w].h = "prefHandler" /\ req[w].pc = "done" /\ req[w].loggedInUser # ""
           /\ req[w].kind = "submit" /\ req[w].maxRows \notin PrefMin..PrefMax)
              => req[w].resp = errorPage(400)

\* The names of the operations of a request, in the order it performed them.
StepsOf(w) == [i \in 1..Len(req[w].ops) |-> req[w].ops[i].op]

\* The operations of a request that belong to a set of names.
StepsAmong(w, names) == SelectSeq(StepsOf(w), LAMBDA name : name \in names)

\* The four read endpoints: JSON table view, CSV export, visualisation
\* data, full page data.
ReadEndpoints == {"tableViewHandler2", "downloadCSVHandler2", "visData", "databasePage"}

\* C22: each of the four read endpoints runs the same sequence: authorise
\* and resolve, look the rendered result up in the cache and, on a miss,
\* fetch, enumerate the tables, read, store in the cache, in that order; on
\* a hit the request performs no fetch, enumeration or read.
SameReadSequence ==
    \A w \in Workers :
        (Answered(w) /\ req[w].h \in ReadEndpoints) =>
            IF req[w].resp.cached
            THEN StepsAmong(w, {"fetch", "open", "tables", "read", "count"}) = << >>
            ELSE StepsAmong(w, {"access", "cacheget", "fetch", "tables", "read", "cacheput"})
                    = <<"access", "cacheget", "fetch", "tables", "read", "cacheput">>

\* The rendered results held by the cache (the resolved locations left out).
RenderedCache == {e \in memCache : e.val.kind # "location"}

\* C23: no partial cache writes.  A step of a request changes the rendered
\* results of the cache only when fetch, open, table validation, the read of
\* every cell, the row count and the serialisation all succeeded for that
\* request, and a request on which one of them failed ends with the rendered
\* results of the cache as they were when it failed.
NoPartialCacheWrites ==
    [][\A w \in Workers :
          req'[w] # req[w] /\ RenderedCache' # RenderedCache => req'[w].stop = "ok"]_vars

\* C27: every record returned by databasePage has exactly ColCount cells,
\* the i-th cell carrying the name of the i-th column, for every mix of cell
\* types and also when scanning a cell reports an error.
RecordsHaveColCountCells ==
    \A w \in Workers :
        (req[w].h = "databasePage" /\ req[w].pc = "done" /\ req[w].resp.code = 200
            /\ req[w].resp.data.Records > 0) =>
            /\ Len(req[w].resp.data.Row1) = req[w].resp.data.ColCount
            /\ \A i \in 1..Len(req[w].resp.data.Row1) :
                  req[w].resp.data.Row1[i].Name = req[w].resp.data.ColNames[i]

\* C24: on every exit path of every read pipeline, each early error return
\* included, every resource the request acquired (local copy of the file,
\* object handle, database handle, prepared statement) has been released
\* when the handler returns.
ResourcesReleasedOnReturn ==
    \A w \in Workers : req[w].pc = "done" => req[w].held = {}

\* A request of a worker that is under way.
InFlight(w) == req[w].pc \notin {"idle", "done"}

\* The step of w that stores its rendered result.
Stores(w) == req[w].pc = "cacheput" /\ req'[w].pc = "done" /\ LastOp(req'[w]).op = "cacheput"

\* C25: requests never wait on one another.  A request under way can always
\* take its next step, whatever the other request does; a request that missed
\* answers with the payload it read itself; when a request stores its
\* rendered result the entry of its key is its payload, whoever stored
\* before (the last write wins); and every request eventually terminates.
RequestsNeverWait ==
    /\ [](\A w \in Workers : InFlight(w) => ENABLED Serve(w))
    /\ [][\A w \in Workers :
            /\ (InFlight(w) /\ req'[w].pc = "done" /\ req'[w].resp.code = 200
                    /\ ~req'[w].resp.cached) => req'[w].resp.data = req[w].data
            /\ Stores(w) =>
                  {e.val : e \in getCachedData(memCache, req[w].key)'} =
                      {RenderedEntry(req[w].kind, req[w].data)}]_vars
    /\ \A w \in Workers : InFlight(w) ~> (req[w].pc = "done")

\* Both workers missed on the same key, read different versions and stored.
BothMissedSameKey ==
    /\ \A w \in Workers : req[w].pc = "done" /\ LastOp(req[w]).op = "cacheput"
                              /\ req[w].resp.code = 200 /\ ~req[w].resp.cached
    /\ req["w1"].key = req["w2"].key
    /\ req["w1"].resp.data # req["w2"].resp.data
    /\ \E w \in Workers : {e.val.data : e \in getCachedData(memCache, req[w].key)} = {req[w].resp.data}

\* C26: the database page rendered for a viewer always carries that
\* viewer's own identity (empty for an anonymous viewer), also on a cache
\* hit where the page data was stored by a request of a different viewer
\* that maps to the same cache key.
PageCarriesOwnIdentity ==
    \A w \in Workers :
        (req[w].h = "databasePage" /\ req[w].pc = "done" /\ req[w].resp.code = 200) =>
            req[w].resp.data.LoggedInUser = req[w].loggedInUser

\* The handlers that serve rows from the rendered-result cache.
CachedRowViews == {"tableViewHandler", "databasePage"}

\* C28: a payload served from the rendered-result cache by the table view or
\* the database page never holds more rows than the row limit of the
\* requesting viewer (10 when anonymous, the stored preference as the request
\* read it otherwise), also after the viewer changed the preference, logged
\* in or logged out.
CachedPayloadWithinLimit ==
    \A w \in Workers :
        (req[w].h \in CachedRowViews /\ req[w].pc = "done" /\ req[w].resp.cached) =>
            /\ req[w].resp.data.Records <= req[w].maxRows
            /\ req[w].loggedInUser = "" => req[w].maxRows = AnonMaxRows

\* A viewer whose preference is no longer the default is served from the
\* cache, with as many rows as the preference allows.
ServedUnderChangedLimit ==
    \E w \in Workers :
        /\ req[w].h \in CachedRowViews /\ req[w].pc = "done" /\ req[w].resp.cached
        /\ req[w].loggedInUser # "" /\ req[w].maxRows # AnonMaxRows
        /\ req[w].resp.data.Records = req[w].maxRows
        /\ req[w].maxRows = pref_max_rows[req[w].loggedInUser]

\* The user has a version with the given flag of the database.
HasVersion(userName, dbName, public) ==
    \E r \in database_versions : r.username = userName /\ r.dbname = dbName /\ r.public = public

\* C29: the user page lists a user's private databases only when the
\* logged-in user is that user; any other viewer, logged in or anonymous, is
\* shown only databases of that user that have at least one public version,
\* each with a public version; an unknown user yields NotFound.
PrivateListedOnlyToOwner ==
    \A w \in Workers :
        (req[w].h = "userPage" /\ req[w].pc = "done") =>
            /\ (req[w].dbOwner \notin Users /\ req[w].resp.code # 500) => req[w].resp.code = 404
            /\ req[w].resp.code = 200 =>
                  /\ req[w].resp.data.PrivateDBs # {} => req[w].loggedInUser = req[w].dbOwner
                  /\ req[w].loggedInUser # req[w].dbOwner =>
                        \A d \in req[w].resp.data.DBRows :
                            \E r \in database_versions :
                                /\ r.username = req[w].dbOwner /\ r.dbname = d.Database
                                /\ r.version = d.Version /\ r.public
                  /\ \A d \in req[w].resp.data.PrivateDBs :
                        HasVersion(req[w].dbOwner, d.Database, FALSE)

\* Another viewer is shown a database of the user by its public version
\* while the database also has a private one.
OtherViewerSeesPublicOnly ==
    \E w \in Workers :
        /\ req[w].h = "userPage" /\ req[w].pc = "done" /\ req[w].resp.code = 200
        /\ req[w].loggedInUser # req[w].dbOwner
        /\ \E d \in req[w].resp.data.DBRows :
              /\ HasVersion(req[w].dbOwner, d.Database, FALSE)
              /\ \E r \in database_versions : r.username = req[w].dbOwner /\ r.version > d.Version

\* An upload that the handler answered with a refusal in its first step.
RejectedUpload(u) ==
    /\ upl[u].pc \in {"idle", "done"} /\ upl'[u].pc = "done" /\ upl'[u] # upl[u]
    /\ upl'[u].code \in {400, 401, 500}

\* The defects an upload is rejected for, as far as the request records them.
Defective(loggedInUser, dbName, file) ==
    \/ loggedInUser = ""
    \/ ~ValidateDB(dbName)
    \/ file \in {"missing", "zeroLength"}
    \/ ~FileOpens(file)
    \/ Len(Tables(file)) = 0

\* C30: an upload that is rejected (no session, unparsable public flag,
\* missing file, invalid database name, zero-length file, file that does not
\* open as a database, file with no tables) stores no object and adds no
\* metadata row: the step that rejects it leaves the object store and the
\* metadata store unchanged, a defective upload is always rejected in that
\* step, and no object or row of the stores comes from a defective upload.
RejectedUploadChangesNothing ==
    /\ [][\A u \in Uploaders :
            RejectedUpload(u) => minio' = minio /\ database_versions' = database_versions]_vars
    /\ [](\A u \in Uploaders :
            (upl[u].pc # "idle" /\ Defective(upl[u].loggedInUser, upl[u].dbName, upl[u].file)) =>
                upl[u].pc = "done" /\ upl[u].code \in {400, 401, 500})
    /\ [](\A r \in database_versions :
            /\ ~Defective(r.username, r.dbname, ObjectAt(r.username, r.minioid).file)
            /\ ObjectAt(r.username, r.minioid) # NoObject)

\* An upload of a file with no tables was rejected after another upload had
\* gone through.
RejectedBesideStored ==
    \E u \in Uploaders :
        /\ upl[u].pc = "done" /\ upl[u].code = 500 /\ upl[u].file = "noTables"
        /\ upl[u].loggedInUser # "" /\ ValidateDB(upl[u].dbName)
        /\ database_versions # {}

=============================================================================
